---- MODULE Spec2Model ----
(***************************************************************************)
(* Decision reconciliation and conversation lifecycle of the UnIntend      *)
(* backend: the decision ledgers, the Application state machine, the       *)
(* conversation / message store and the per-participant read cursors.      *)
(* Tables are sequences of rows; a row's primary key is its index.         *)
(***************************************************************************)
EXTENDS Integers, Sequences, FiniteSets, TLC

VARIABLES
    posts,      \* internship_posts: post id -> row
    sposts,     \* student_profile_posts (profile cards), id = index
    sint,       \* student_post_interactions, id = index
    cint,       \* company_student_post_interactions, id = index
    apps,       \* applications, id = index
    convs,      \* conversations, id = index
    msgs,       \* messages, id = index
    parts,      \* conversation_participants, id = index
    now,        \* the value the next datetime.utcnow() returns
    changes,    \* history: per application, how often its status changed
    last,       \* history: the latest request that wrote to the database
    inflight    \* requests that have read but not yet written (SpecConc)

vars == <<posts, sposts, sint, cint, apps, convs, msgs, parts, now,
          changes, last, inflight>>

(***************************************************************************)
(* Bounds of the model.                                                    *)
(***************************************************************************)
MaxClock == 4
MaxInflight == 2
MaxChatClock == 6

(***************************************************************************)
(* Vocabulary.                                                             *)
(***************************************************************************)
NULL == -1

PENDING_TEXT == "Message still pending"
ACCEPTED_TEXT == "Ready to connect?"
DECLINED_TEXT == "Unfortunately this was not a match, keep searching!"
USER_TEXT == "hello"
Bios == {"bio"}

Companies == {1}
Students == {2, 3}
Users == Companies \cup Students
\* a second company account; it owns no post and calls the status endpoint
OtherCompanies == {4}
StatusCallers == Users \cup OtherCompanies
PostIds == {1, 2}
ReqPostIds == PostIds \cup {9}
ReqCardIds == {1, 2, 9}
ReqUserIds == Users \cup {9}

UserRole(u) ==
    IF u \in Companies \cup OtherCompanies THEN "COMPANY" ELSE "STUDENT"

Decision == {"NONE", "LIKE", "PASS"}
ReqDecision == {"LIKE", "PASS"}
ApplicationStatus == {"PENDING", "ACCEPTED", "DECLINED"}
ReqStatus == {"ACCEPTED", "DECLINED", "LIKE", "PASS"}

Request(op, u, target, arg) ==
    [op |-> op, user |-> u, target |-> target, arg |-> arg]

NoReq == Request("none", 0, 0, 0)

(***************************************************************************)
(* Query helpers: ids of the rows of a table that pass a filter, and       *)
(* .first() (0 stands for None).                                           *)
(***************************************************************************)
Min(S) == CHOOSE x \in S : \A y \in S : x <= y
Max(S) == CHOOSE x \in S : \A y \in S : x >= y
First(S) == IF S = {} THEN 0 ELSE Min(S)

SintRow(s, p) ==
    First({i \in DOMAIN sint :
              sint[i].student_user_id = s /\ sint[i].post_id = p})

CintRow(c, card) ==
    First({i \in DOMAIN cint :
              cint[i].company_user_id = c /\ cint[i].student_post_id = card})

CardOf(s) ==
    First({i \in DOMAIN sposts : sposts[i].student_user_id = s})

AppOf(p, s) ==
    First({i \in DOMAIN apps :
              apps[i].post_id = p /\ apps[i].student_user_id = s})

ConvOf(a) ==
    First({k \in DOMAIN convs : convs[k].application_id = a})

PartRow(k, u) ==
    First({i \in DOMAIN parts :
              parts[i].conversation_id = k /\ parts[i].user_id = u})

MsgIds(k) == {i \in DOMAIN msgs : msgs[i].conversation_id = k}

\* func.max(Message.id) over the conversation; None when it has no message
MaxMsgId(k) == IF MsgIds(k) = {} THEN NULL ELSE Max(MsgIds(k))

(***************************************************************************)
(* Ledger rows.                                                            *)
(***************************************************************************)
NewSintRow(s, p) ==
    [student_user_id |-> s, post_id |-> p, saved |-> FALSE,
     decision |-> "NONE", saved_at |-> NULL, decided_at |-> NULL]

NewCintRow(c, card) ==
    [company_user_id |-> c, student_post_id |-> card, saved |-> FALSE,
     decision |-> "NONE", saved_at |-> NULL, decided_at |-> NULL]

ensure_student_interaction_row(s, p) ==
    IF SintRow(s, p) # 0 THEN sint ELSE Append(sint, NewSintRow(s, p))

ensure_company_studentpost_interaction(c, card) ==
    IF CintRow(c, card) # 0 THEN cint ELSE Append(cint, NewCintRow(c, card))

\* the ledger after the upsert of a decision
SintDecided(s, p, d, at) ==
    LET t == ensure_student_interaction_row(s, p)
        i == First({j \in DOMAIN t :
                       t[j].student_user_id = s /\ t[j].post_id = p})
    IN [t EXCEPT ![i].decision = d, ![i].decided_at = at]

CintDecided(c, card, d, at) ==
    LET t == ensure_company_studentpost_interaction(c, card)
        i == First({j \in DOMAIN t :
                       t[j].company_user_id = c /\ t[j].student_post_id = card})
    IN [t EXCEPT ![i].decision = d, ![i].decided_at = at]

(***************************************************************************)
(* Reconciliation.                                                         *)
(***************************************************************************)
\* (fault: the text of the default status for every status)
status_to_pending_text(st) == PENDING_TEXT

status_to_system_text(st) ==
    IF st = "PENDING" THEN PENDING_TEXT
    ELSE IF st = "ACCEPTED" THEN ACCEPTED_TEXT
    ELSE DECLINED_TEXT

SystemMessage(k, text, at) ==
    [conversation_id |-> k, type |-> "SYSTEM", sender_user_id |-> NULL,
     text |-> text, created_at |-> at]

\* The chat tables as one value, so that a helper can return all of them.
Chat == [apps |-> apps, convs |-> convs, msgs |-> msgs, parts |-> parts,
         changes |-> changes]

\* the rows one Application creation inserts: the application, its
\* conversation, the seed message and both participants' read cursors
\* (fault: the conversation insert is left out)
InsertNoConversation(db, a) == db.convs

InsertConversation(db, a) ==
    Append(db.convs, [application_id |-> a])

\* (fault: the participants' read cursors are left out)
InsertApplicationNoCursors(db, s, p, st, at) ==
    LET a == Len(db.apps) + 1
        cv == InsertConversation(db, a)
        k == Len(cv)
        c == posts[p].company_user_id
    IN [apps |-> Append(db.apps,
                    [post_id |-> p, student_user_id |-> s,
                     company_user_id |-> c, status |-> st,
                     created_at |-> at, updated_at |-> at]),
        convs |-> cv,
        msgs |-> Append(db.msgs,
                    SystemMessage(k, status_to_system_text(st), at)),
        parts |-> db.parts,
        changes |-> Append(db.changes, 0)]

InsertApplication(db, s, p, st, at) ==
    LET a == Len(db.apps) + 1
        cv == InsertConversation(db, a)
        k == Len(cv)
        m == Len(db.msgs) + 1
        c == posts[p].company_user_id
    IN [apps |-> Append(db.apps,
                    [post_id |-> p, student_user_id |-> s,
                     company_user_id |-> c, status |-> st,
                     created_at |-> at, updated_at |-> at]),
        convs |-> cv,
        msgs |-> Append(db.msgs,
                    SystemMessage(k, status_to_system_text(st), at)),
        parts |-> db.parts \o
                  << [conversation_id |-> k, user_id |-> s,
                      last_read_message_id |-> m, updated_at |-> at],
                     [conversation_id |-> k, user_id |-> c,
                      last_read_message_id |-> m, updated_at |-> at] >>,
        changes |-> Append(db.changes, 0)]

\* (fault: the lookup of an existing application is left out)
create_application_without_lookup(s, p, st, at) ==
    InsertApplication(Chat, s, p, st, at)

\* (fault: an existing application is reset to the initial status)
create_application_resetting_existing(s, p, st, at) ==
    IF AppOf(p, s) = 0 THEN InsertApplication(Chat, s, p, st, at)
    ELSE IF apps[AppOf(p, s)].status = st THEN Chat
    ELSE [Chat EXCEPT
            !.apps = [apps EXCEPT ![AppOf(p, s)].status = st,
                                  ![AppOf(p, s)].updated_at = at],
            !.changes = [changes EXCEPT ![AppOf(p, s)] = @ + 1],
            !.msgs = IF ConvOf(AppOf(p, s)) = 0 THEN msgs
                     ELSE Append(msgs,
                            SystemMessage(ConvOf(AppOf(p, s)),
                                          status_to_system_text(st), at))]

create_application_and_conversation_if_needed(s, p, st, at) ==
    IF AppOf(p, s) # 0 THEN Chat ELSE InsertApplication(Chat, s, p, st, at)

_company_has_passed_student(c, s) ==
    /\ CardOf(s) # 0
    /\ \E i \in DOMAIN cint :
          /\ cint[i].company_user_id = c
          /\ cint[i].student_post_id = CardOf(s)
          /\ cint[i].decision = "PASS"

\* (fault: the decision filter of the query is left out)
_latest_company_post_student_touched(c, s) ==
    LET rows == {i \in DOMAIN sint :
                    /\ sint[i].student_user_id = s
                    /\ sint[i].post_id \in DOMAIN posts
                    /\ posts[sint[i].post_id].company_user_id = c}
        \* decided_at DESC NULLS LAST, id DESC
        Before(i, j) ==
            \/ sint[i].decided_at # NULL /\ sint[j].decided_at = NULL
            \/ /\ sint[i].decided_at # NULL /\ sint[j].decided_at # NULL
               /\ sint[i].decided_at > sint[j].decided_at
            \/ sint[i].decided_at = sint[j].decided_at /\ i > j
    IN IF rows = {} THEN 0
       ELSE sint[CHOOSE i \in rows :
                    \A j \in rows \ {i} : Before(i, j)].post_id

\* (fault: the order of the query is reversed)
_earliest_company_post_student_passed(c, s) ==
    LET rows == {i \in DOMAIN sint :
                    /\ sint[i].student_user_id = s
                    /\ sint[i].decision = "PASS"
                    /\ sint[i].post_id \in DOMAIN posts
                    /\ posts[sint[i].post_id].company_user_id = c}
        \* decided_at ASC, id ASC
        Before(i, j) ==
            \/ sint[i].decided_at # NULL /\ sint[j].decided_at = NULL
            \/ /\ sint[i].decided_at # NULL /\ sint[j].decided_at # NULL
               /\ sint[i].decided_at < sint[j].decided_at
            \/ sint[i].decided_at = sint[j].decided_at /\ i < j
    IN IF rows = {} THEN 0
       ELSE sint[CHOOSE i \in rows :
                    \A j \in rows \ {i} : Before(i, j)].post_id

_latest_company_post_student_passed(c, s) ==
    LET rows == {i \in DOMAIN sint :
                    /\ sint[i].student_user_id = s
                    /\ sint[i].decision = "PASS"
                    /\ sint[i].post_id \in DOMAIN posts
                    /\ posts[sint[i].post_id].company_user_id = c}
        \* decided_at DESC NULLS LAST, id DESC
        Before(i, j) ==
            \/ sint[i].decided_at # NULL /\ sint[j].decided_at = NULL
            \/ /\ sint[i].decided_at # NULL /\ sint[j].decided_at # NULL
               /\ sint[i].decided_at > sint[j].decided_at
            \/ sint[i].decided_at = sint[j].decided_at /\ i > j
    IN IF rows = {} THEN 0
       ELSE sint[CHOOSE i \in rows :
                    \A j \in rows \ {i} : Before(i, j)].post_id

\* (fault: the status filter of the query is left out)
PendingFirstAnyStatus(c, s) ==
    LET pend == {i \in DOMAIN apps :
                    /\ apps[i].company_user_id = c
                    /\ apps[i].student_user_id = s}
    IN IF pend = {} THEN {0}
       ELSE {i \in pend :
                \A j \in pend : apps[j].updated_at <= apps[i].updated_at}

\* the rows `.order_by(Application.updated_at.desc()).first()` may return
\* among the PENDING applications between the company and the student
PendingFirst(c, s) ==
    LET pend == {i \in DOMAIN apps :
                    /\ apps[i].company_user_id = c
                    /\ apps[i].student_user_id = s
                    /\ apps[i].status = "PENDING"}
    IN IF pend = {} THEN {0}
       ELSE {i \in pend :
                \A j \in pend : apps[j].updated_at <= apps[i].updated_at}

DecisionToStatus(d) == IF d = "LIKE" THEN "ACCEPTED" ELSE "DECLINED"

\* (fault: the decline text for every status)
DecisionSystemTextDeclined(new_status) == DECLINED_TEXT

DecisionSystemText(new_status) ==
    IF new_status = "ACCEPTED" THEN ACCEPTED_TEXT ELSE DECLINED_TEXT

\* a is the row the PENDING query returned (0: none)
_update_pending_application_status_for_company_student_if_any(c, s, d, a, at) ==
    IF d \notin {"LIKE", "PASS"} THEN Chat
    ELSE IF a = 0 THEN
        LET passed_post == _latest_company_post_student_passed(c, s)
        IN IF passed_post # 0
           THEN create_application_and_conversation_if_needed(
                    s, passed_post, "DECLINED", at)
           ELSE Chat
    ELSE
        LET new_status == DecisionToStatus(d)
            k == ConvOf(a)
        IN IF apps[a].status = new_status THEN Chat
           ELSE [Chat EXCEPT
                   !.apps = [apps EXCEPT ![a].status = new_status,
                                         ![a].updated_at = at],
                   !.changes = [changes EXCEPT ![a] = @ + 1],
                   !.msgs = IF k = 0 THEN msgs
                            ELSE Append(msgs,
                                   SystemMessage(k,
                                     DecisionSystemText(new_status), at))]

(***************************************************************************)
(* Requests.  A request that fails (4xx, 5xx) or has nothing to write      *)
(* leaves the database as it was.                                          *)
(***************************************************************************)
\* (fault: the application write is committed on its own, before the
\* conversation and message writes)
SetChatAppsOnly(db) ==
    /\ apps' = db.apps
    /\ changes' = db.changes
    /\ UNCHANGED <<convs, msgs, parts>>

SetChat(db) ==
    /\ apps' = db.apps
    /\ convs' = db.convs
    /\ msgs' = db.msgs
    /\ parts' = db.parts
    /\ changes' = db.changes

student_decision_status(u, p) ==
    IF UserRole(u) # "STUDENT" THEN 403
    ELSE IF p \notin DOMAIN posts \/ ~posts[p].is_active THEN 404
    ELSE 200

\* (fault: a PASS opens an application like a LIKE)
StudentDecisionChatAnyDecision(u, p, d, at) ==
    IF _company_has_passed_student(posts[p].company_user_id, u)
    THEN create_application_and_conversation_if_needed(u, p, "DECLINED", at)
    ELSE create_application_and_conversation_if_needed(u, p, "ACCEPTED", at)

StudentDecisionChat(u, p, d, at) ==
    IF _company_has_passed_student(posts[p].company_user_id, u)
    THEN create_application_and_conversation_if_needed(u, p, "DECLINED", at)
    ELSE IF d = "LIKE"
    THEN create_application_and_conversation_if_needed(u, p, "ACCEPTED", at)
    ELSE Chat

student_decision_post(u, p, d) ==
    /\ IF student_decision_status(u, p) # 200 THEN UNCHANGED vars
       ELSE /\ now < MaxClock
            /\ sint' = SintDecided(u, p, d, now)
            /\ SetChat(StudentDecisionChat(u, p, d, now))
            /\ now' = now + 1
            /\ last' = Request("student_decision", u, p, d)
            /\ UNCHANGED <<posts, sposts, cint, inflight>>

company_decision_status(u, card) ==
    IF UserRole(u) # "COMPANY" THEN 403
    ELSE IF card \notin DOMAIN sposts \/ ~sposts[card].is_active THEN 404
    ELSE 200

CompanyDecide(u, card, d) ==
    /\ now < MaxClock
    /\ cint' = CintDecided(u, card, d, now)
    /\ \E a \in PendingFirst(u, sposts[card].student_user_id) :
          SetChat(_update_pending_application_status_for_company_student_if_any(
                      u, sposts[card].student_user_id, d, a, now))
    /\ now' = now + 1
    /\ last' = Request("company_decision", u, card, d)
    /\ UNCHANGED <<posts, sposts, sint, inflight>>

company_decision_student_post(u, card, d) ==
    /\ IF company_decision_status(u, card) # 200 THEN UNCHANGED vars
       ELSE CompanyDecide(u, card, d)

company_decision_student(u, s, d) ==
    /\ IF company_decision_status(u, IF CardOf(s) = 0 THEN 9 ELSE CardOf(s)) # 200
       THEN UNCHANGED vars
       ELSE CompanyDecide(u, CardOf(s), d)

\* (fault: the LIKE/PASS shorthand is not mapped)
NormalizeStatusVerbatim(st) == st

NormalizeStatus(st) ==
    IF st = "LIKE" THEN "ACCEPTED"
    ELSE IF st = "PASS" THEN "DECLINED"
    ELSE st

\* (fault: the role is checked, the ownership is not)
set_application_status_status_any_company(u, a, st) ==
    IF a \notin DOMAIN apps THEN 404
    ELSE IF UserRole(u) # "COMPANY" THEN 403
    ELSE IF apps[a].status = NormalizeStatus(st) THEN 200
    ELSE IF ConvOf(a) = 0 THEN 500
    ELSE 200

set_application_status_status(u, a, st) ==
    IF a \notin DOMAIN apps THEN 404
    ELSE IF UserRole(u) # "COMPANY" \/ apps[a].company_user_id # u THEN 403
    ELSE IF apps[a].status = NormalizeStatus(st) THEN 200
    ELSE IF ConvOf(a) = 0 THEN 500
    ELSE 200

set_application_status(u, a, st) ==
    /\ IF \/ set_application_status_status(u, a, st) # 200
          \/ apps[a].status = NormalizeStatus(st)
       THEN UNCHANGED vars
       ELSE /\ now < MaxClock
            /\ SetChat([Chat EXCEPT
                  !.apps = [apps EXCEPT ![a].status = NormalizeStatus(st),
                                        ![a].updated_at = now],
                  !.changes = [changes EXCEPT ![a] = @ + 1],
                  !.msgs = Append(msgs,
                              SystemMessage(ConvOf(a),
                                 status_to_system_text(NormalizeStatus(st)),
                                 now))])
            /\ now' = now + 1
            /\ last' = Request("set_application_status", u, a, st)
            /\ UNCHANGED <<posts, sposts, sint, cint, inflight>>

(***************************************************************************)
(* Conversations: access, read cursors, unread counts.                     *)
(***************************************************************************)
\* (fault: every user may access every conversation)
can_access_any(k, u) ==
    k \in DOMAIN convs /\ convs[k].application_id \in DOMAIN apps

can_access_conversation(k, u) ==
    /\ k \in DOMAIN convs
    /\ convs[k].application_id \in DOMAIN apps
    /\ \/ apps[convs[k].application_id].student_user_id = u
       \/ apps[convs[k].application_id].company_user_id = u

\* `last_read_message_id or 0`
Threshold(last_read_message_id) ==
    IF last_read_message_id = NULL THEN 0 ELSE last_read_message_id

\* (fault: the sender filters are left out)
CountedAnySender(k, u, i, threshold) ==
    msgs[i].conversation_id = k /\ i > threshold

Counted(k, u, i, threshold) ==
    /\ msgs[i].conversation_id = k
    /\ i > threshold
    /\ msgs[i].sender_user_id # NULL
    /\ msgs[i].sender_user_id # u

_unread_count(k, u, last_read_message_id) ==
    Cardinality({i \in DOMAIN msgs :
                    Counted(k, u, i, Threshold(last_read_message_id))})

\* the participant table after _ensure_participant; seen is the set of
\* message ids the max(Message.id) query can see (the flushed ones)
_ensure_participant(pt, k, u, seed_last_read_to_last_message, seen, at) ==
    IF \E i \in DOMAIN pt : pt[i].conversation_id = k /\ pt[i].user_id = u
    THEN pt
    ELSE Append(pt,
           [conversation_id |-> k, user_id |-> u,
            last_read_message_id |->
               IF seed_last_read_to_last_message /\ seen # {}
               THEN Max(seen) ELSE NULL,
            updated_at |-> at])

SetCursor(pt, k, u, m, at) ==
    LET i == First({j \in DOMAIN pt :
                       pt[j].conversation_id = k /\ pt[j].user_id = u})
    IN IF i = 0 THEN pt
       ELSE [pt EXCEPT ![i].last_read_message_id = m, ![i].updated_at = at]

\* the unreadCount the applications listing reports for user u on
\* conversation k: a missing participant row is first backfilled, seeded
\* to the latest message
ListedUnread(k, u) ==
    IF PartRow(k, u) = 0 THEN _unread_count(k, u, MaxMsgId(k))
    ELSE _unread_count(k, u, parts[PartRow(k, u)].last_read_message_id)

\* (fault: the check of a declined application is left out)
send_message_status_open(u, k) ==
    IF k \notin DOMAIN convs THEN 404
    ELSE IF convs[k].application_id \notin DOMAIN apps THEN 500
    ELSE IF ~can_access_conversation(k, u) THEN 403
    ELSE 200

send_message_status(u, k) ==
    IF k \notin DOMAIN convs THEN 404
    ELSE IF convs[k].application_id \notin DOMAIN apps THEN 500
    ELSE IF ~can_access_conversation(k, u) THEN 403
    ELSE IF apps[convs[k].application_id].status = "DECLINED" THEN 400
    ELSE 200

\* (fault: the recipient's cursor is advanced with the sender's)
SendPartsBothCursors(u, k) ==
    LET a == apps[convs[k].application_id]
        m == Len(msgs) + 1
        other == IF a.student_user_id = u THEN a.company_user_id
                 ELSE a.student_user_id
        p1 == _ensure_participant(parts, k, u, TRUE, MsgIds(k), now)
        p2 == _ensure_participant(p1, k, other, TRUE, MsgIds(k), now)
    IN SetCursor(SetCursor(p2, k, u, m, now), k, other, m, now)

\* The new message is pending until the first flush; the session does not
\* autoflush, so a max(Message.id) query before that flush does not see it.
\* The sender's _ensure_participant flushes only when it inserts a row.
SendParts(u, k) ==
    LET a == apps[convs[k].application_id]
        m == Len(msgs) + 1
        other == IF a.student_user_id = u THEN a.company_user_id
                 ELSE a.student_user_id
        flushed == PartRow(k, u) = 0
        p1 == _ensure_participant(parts, k, u, TRUE, MsgIds(k), now)
        p2 == _ensure_participant(p1, k, other, TRUE,
                 IF flushed THEN MsgIds(k) \cup {m} ELSE MsgIds(k), now)
    IN SetCursor(p2, k, u, m, now)

send_message(u, k) ==
    /\ IF send_message_status(u, k) # 200 THEN UNCHANGED vars
       ELSE /\ now < MaxClock
            /\ msgs' = Append(msgs,
                  [conversation_id |-> k, type |-> "USER",
                   sender_user_id |-> u, text |-> USER_TEXT,
                   created_at |-> now])
            /\ parts' = SendParts(u, k)
            /\ now' = now + 1
            /\ last' = Request("send_message", u, k, 0)
            /\ UNCHANGED <<posts, sposts, sint, cint, apps, convs,
                           changes, inflight>>

\* (fault: the check of lastReadMessageId is left out)
mark_conversation_read_status_any_id(u, k, lastReadMessageId) ==
    IF ~can_access_conversation(k, u) THEN 403 ELSE 200

mark_conversation_read_status(u, k, lastReadMessageId) ==
    IF ~can_access_conversation(k, u) THEN 403
    ELSE IF /\ lastReadMessageId # NULL
            /\ \/ lastReadMessageId \notin DOMAIN msgs
               \/ msgs[lastReadMessageId].conversation_id # k
    THEN 400
    ELSE 200

\* (fault: func.min in place of func.max)
MarkReadTargetOldest(k, lastReadMessageId) ==
    IF lastReadMessageId # NULL THEN lastReadMessageId
    ELSE IF MsgIds(k) = {} THEN NULL ELSE Min(MsgIds(k))

MarkReadTarget(k, lastReadMessageId) ==
    IF lastReadMessageId # NULL THEN lastReadMessageId ELSE MaxMsgId(k)

MarkReadParts(u, k, lastReadMessageId) ==
    LET p1 == _ensure_participant(parts, k, u, FALSE, MsgIds(k), now)
        target_id == MarkReadTarget(k, lastReadMessageId)
    IN IF target_id # NULL THEN SetCursor(p1, k, u, target_id, now) ELSE p1

mark_conversation_read(u, k, lastReadMessageId) ==
    /\ IF \/ mark_conversation_read_status(u, k, lastReadMessageId) # 200
          \/ MarkReadParts(u, k, lastReadMessageId) = parts
       THEN UNCHANGED vars
       ELSE /\ now < MaxClock
            /\ parts' = MarkReadParts(u, k, lastReadMessageId)
            /\ now' = now + 1
            /\ last' = Request("mark_conversation_read", u, k,
                               lastReadMessageId)
            /\ UNCHANGED <<posts, sposts, sint, cint, apps, convs, msgs,
                           changes, inflight>>

\* the applications the listing walks through, newest update first
ListedApps(u) ==
    {a \in DOMAIN apps :
        IF UserRole(u) = "STUDENT" THEN apps[a].student_user_id = u
        ELSE apps[a].company_user_id = u}

RECURSIVE ListBackfill(_, _, _)
ListBackfill(pt, u, todo) ==
    IF todo = {} THEN pt
    ELSE LET a == CHOOSE x \in todo : \A y \in todo \ {x} :
                     \/ apps[x].updated_at > apps[y].updated_at
                     \/ apps[x].updated_at = apps[y].updated_at /\ x > y
             k == ConvOf(a)
         IN ListBackfill(
                IF k = 0 THEN pt
                ELSE _ensure_participant(pt, k, u, TRUE, MsgIds(k), now),
                u, todo \ {a})

list_applications(u) ==
    /\ IF ListBackfill(parts, u, ListedApps(u)) = parts THEN UNCHANGED vars
       ELSE /\ now < MaxClock
            /\ parts' = ListBackfill(parts, u, ListedApps(u))
            /\ now' = now + 1
            /\ last' = Request("list_applications", u, 0, 0)
            /\ UNCHANGED <<posts, sposts, sint, cint, apps, convs, msgs,
                           changes, inflight>>

get_messages_status(u, k) ==
    IF ~can_access_conversation(k, u) THEN 403 ELSE 200

\* the messages GET /conversations/{id}/messages returns ({}: no access)
get_messages(u, k) ==
    IF get_messages_status(u, k) # 200 THEN {} ELSE MsgIds(k)

(***************************************************************************)
(* Saves: the save flag of a ledger row.                                   *)
(***************************************************************************)
set_saved_post_status(u, p) ==
    IF UserRole(u) # "STUDENT" THEN 403
    ELSE IF p \notin DOMAIN posts THEN 404
    ELSE 200

\* (fault: the save resets the decision)
SintSavedResetsDecision(s, p, saved, at) ==
    LET t == ensure_student_interaction_row(s, p)
        i == First({j \in DOMAIN t :
                       t[j].student_user_id = s /\ t[j].post_id = p})
    IN [t EXCEPT ![i].saved = saved,
                 ![i].saved_at = IF saved THEN at ELSE NULL,
                 ![i].decision = "NONE",
                 ![i].decided_at = NULL]

SintSaved(s, p, saved, at) ==
    LET t == ensure_student_interaction_row(s, p)
        i == First({j \in DOMAIN t :
                       t[j].student_user_id = s /\ t[j].post_id = p})
    IN [t EXCEPT ![i].saved = saved,
                 ![i].saved_at = IF saved THEN at ELSE NULL]

set_saved_post_for_student(u, p, saved) ==
    /\ IF \/ set_saved_post_status(u, p) # 200
          \/ SintSaved(u, p, saved, now) = sint
       THEN UNCHANGED vars
       ELSE /\ now < MaxClock
            /\ sint' = SintSaved(u, p, saved, now)
            /\ now' = now + 1
            /\ last' = Request("set_saved_post", u, p, saved)
            /\ UNCHANGED <<posts, sposts, cint, apps, convs, msgs, parts,
                           changes, inflight>>

\* studentPostId is the card the request names (NULL: it names the student
\* by studentUserId instead)
set_saved_student_status(u, studentPostId, studentUserId) ==
    IF UserRole(u) # "COMPANY" THEN 403
    ELSE IF studentPostId # NULL
    THEN IF studentPostId \notin DOMAIN sposts THEN 404
         ELSE IF sposts[studentPostId].student_user_id \notin Students
         THEN 404 ELSE 200
    ELSE IF studentUserId # NULL
    THEN IF studentUserId \notin Students THEN 404 ELSE 200
    ELSE 400

CintSaved(c, card, saved, at) ==
    LET t == ensure_company_studentpost_interaction(c, card)
        i == First({j \in DOMAIN t :
                       t[j].company_user_id = c /\ t[j].student_post_id = card})
    IN [t EXCEPT ![i].saved = saved,
                 ![i].saved_at = IF saved THEN at ELSE NULL]

\* the card of a student that has none yet
NewCard(s, description, at) ==
    [student_user_id |-> s, is_active |-> TRUE, description |-> description,
     created_at |-> at, updated_at |-> at]

ensure_student_profile_post(s) ==
    IF CardOf(s) # 0 THEN sposts
    ELSE Append(sposts, NewCard(s, "Student profile", now))

set_saved_student_for_company(u, studentPostId, studentUserId, saved) ==
    /\ IF set_saved_student_status(u, studentPostId, studentUserId) # 200
       THEN UNCHANGED vars
       ELSE LET sp == IF studentPostId # NULL THEN sposts
                      ELSE ensure_student_profile_post(studentUserId)
                card == IF studentPostId # NULL THEN studentPostId
                        ELSE First({i \in DOMAIN sp :
                                 sp[i].student_user_id = studentUserId})
            IN IF sp = sposts /\ CintSaved(u, card, saved, now) = cint
               THEN UNCHANGED vars
               ELSE /\ now < MaxClock
                    /\ sposts' = sp
                    /\ cint' = CintSaved(u, card, saved, now)
                    /\ now' = now + 1
                    /\ last' = Request("set_saved_student", u, card, saved)
                    /\ UNCHANGED <<posts, sint, apps, convs, msgs, parts,
                                   changes, inflight>>

(***************************************************************************)
(* Profile update and the profile card; soft delete of a post.             *)
(***************************************************************************)
\* the card after the profile update: title and description are replaced,
\* no other column is written
_ensure_student_profile_post(s, description) ==
    IF CardOf(s) = 0 THEN Append(sposts, NewCard(s, description, now))
    ELSE [sposts EXCEPT ![CardOf(s)].description = description]

update_me(u, bio) ==
    /\ IF \/ UserRole(u) # "STUDENT"
          \/ _ensure_student_profile_post(u, bio) = sposts
       THEN UNCHANGED vars
       ELSE /\ now < MaxClock
            /\ sposts' = _ensure_student_profile_post(u, bio)
            /\ now' = now + 1
            /\ last' = Request("update_me", u, CardOf(u), bio)
            /\ UNCHANGED <<posts, sint, cint, apps, convs, msgs, parts,
                           changes, inflight>>

delete_post_status(u, p) ==
    IF UserRole(u) # "COMPANY" THEN 403
    ELSE IF p \notin DOMAIN posts \/ ~posts[p].is_active THEN 404
    ELSE IF posts[p].company_user_id # u THEN 403
    ELSE 204

delete_post(u, p) ==
    /\ IF delete_post_status(u, p) # 204 THEN UNCHANGED vars
       ELSE /\ now < MaxClock
            /\ posts' = [posts EXCEPT ![p].is_active = FALSE]
            /\ now' = now + 1
            /\ last' = Request("delete_post", u, p, 0)
            /\ UNCHANGED <<sposts, sint, cint, apps, convs, msgs, parts,
                           changes, inflight>>

(***************************************************************************)
(* Feeds (without the department filter and the page limit).               *)
(***************************************************************************)
\* (fault: the status filter is left out)
all_app_post_ids(s) ==
    {apps[a].post_id : a \in {i \in DOMAIN apps :
                                 apps[i].student_user_id = s}}

\* posts of applications of s the company has responded to
resolved_app_post_ids(s) ==
    {apps[a].post_id : a \in {i \in DOMAIN apps :
                                 /\ apps[i].student_user_id = s
                                 /\ apps[i].status # "PENDING"}}

\* the `interactions` subquery: ledger rows of s that hide their post
StudentHidden(s) ==
    {sint[i].post_id : i \in {j \in DOMAIN sint :
         /\ sint[j].post_id \in DOMAIN posts
         /\ sint[j].student_user_id = s
         /\ \/ sint[j].decision = "PASS"
            \/ sint[j].post_id \in resolved_app_post_ids(s)}}

student_feed(s) ==
    {p \in DOMAIN posts : posts[p].is_active /\ p \notin StudentHidden(s)}

\* the students with a decision other than NONE on some post
student_decisions ==
    {sint[i].student_user_id : i \in {j \in DOMAIN sint :
                                         sint[j].decision # "NONE"}}

\* coalesce(updated_at, created_at)
Freshness(card) ==
    IF sposts[card].updated_at # NULL THEN sposts[card].updated_at
    ELSE sposts[card].created_at

\* (fault: a PASS never hides a card)
PassNeverCurrent(i) == FALSE

\* a PASS is current while the card is not fresher than the decision
PassCurrent(i) ==
    /\ cint[i].decision = "PASS"
    /\ cint[i].student_post_id \in DOMAIN sposts
    /\ cint[i].decided_at # NULL
    /\ Freshness(cint[i].student_post_id) <= cint[i].decided_at

\* (fault: a LIKE hides the card at once)
LikeAlwaysMutual(i) == cint[i].decision = "LIKE"

LikeMutual(i) ==
    /\ cint[i].decision \notin {"NONE", "PASS"}
    /\ cint[i].student_post_id \in DOMAIN sposts
    /\ sposts[cint[i].student_post_id].student_user_id \in student_decisions

\* the `decided` subquery
CompanyDecided(c) ==
    {cint[i].student_post_id : i \in {j \in DOMAIN cint :
         /\ cint[j].company_user_id = c
         /\ (PassCurrent(j) \/ LikeMutual(j))}}

company_feed(c) ==
    {card \in DOMAIN sposts :
        sposts[card].is_active /\ card \notin CompanyDecided(c)}

(***************************************************************************)
(* The database after the seed script: demo applications are written       *)
(* directly, with their conversation and one system message, and without   *)
(* participant rows.                                                       *)
(***************************************************************************)
ensure_application_with_conversation(db, p, s, c, st, at) ==
    LET old == First({i \in DOMAIN db.apps :
                  db.apps[i].post_id = p /\ db.apps[i].student_user_id = s})
        a == IF old = 0 THEN Len(db.apps) + 1 ELSE old
        ap == IF old = 0
              THEN Append(db.apps,
                     [post_id |-> p, student_user_id |-> s,
                      company_user_id |-> c, status |-> st,
                      created_at |-> at, updated_at |-> at])
              ELSE [db.apps EXCEPT ![a].status = st, ![a].updated_at = at]
        oldk == First({k \in DOMAIN db.convs : db.convs[k].application_id = a})
        cv == IF oldk = 0 THEN InsertConversation(db, a) ELSE db.convs
        k == IF oldk = 0 THEN Len(cv) ELSE oldk
        existing_system ==
            \E i \in DOMAIN db.msgs :
                /\ db.msgs[i].conversation_id = k
                /\ db.msgs[i].type = "SYSTEM"
                /\ db.msgs[i].sender_user_id = NULL
                /\ db.msgs[i].text = status_to_system_text(st)
    IN [db EXCEPT
          !.apps = ap,
          !.convs = cv,
          !.msgs = IF existing_system THEN db.msgs
                   ELSE Append(db.msgs,
                           SystemMessage(k, status_to_system_text(st), at)),
          !.changes = IF old = 0 THEN Append(db.changes, 0) ELSE db.changes]

EmptyChat == [apps |-> <<>>, convs |-> <<>>, msgs |-> <<>>, parts |-> <<>>,
              changes |-> <<>>]

SeedChoices == {"NONE"} \cup ApplicationStatus

\* the seed gives a student a LIKE on post 1 and the application for it
SeedStudent(db, s, st) ==
    IF st = "NONE" THEN db
    ELSE ensure_application_with_conversation(
             db, 1, s, 1, st, 0)

SeedLedger(seed, ss) ==
    IF seed = "NONE" THEN <<>>
    ELSE << [NewSintRow(ss, 1) EXCEPT !.decision = "LIKE",
                                      !.decided_at = 0] >>

Init ==
    /\ posts = [p \in PostIds |-> [company_user_id |-> 1, is_active |-> TRUE]]
    /\ sposts = << NewCard(2, "Student profile", 0),
                   NewCard(3, "Student profile", 0) >>
    /\ cint = <<>>
    /\ \E seed \in SeedChoices :
          /\ sint = SeedLedger(seed, 2)
          /\ LET db == SeedStudent(EmptyChat, 2, seed)
             IN /\ apps = db.apps
                /\ convs = db.convs
                /\ msgs = db.msgs
                /\ parts = db.parts
                /\ changes = db.changes
    /\ now = 1
    /\ last = NoReq
    /\ inflight = {}

Next ==
    \/ \E u \in Users, p \in ReqPostIds, d \in ReqDecision :
          student_decision_post(u, p, d)
    \/ \E u \in Users, card \in ReqCardIds, d \in ReqDecision :
          company_decision_student_post(u, card, d)
    \/ \E u \in Users, s \in ReqUserIds, d \in ReqDecision :
          company_decision_student(u, s, d)
    \/ \E u \in StatusCallers, a \in 1..(Len(apps) + 1), st \in ReqStatus :
          set_application_status(u, a, st)
    \/ \E u \in Users, k \in 1..(Len(convs) + 1) :
          send_message(u, k)
    \/ \E u \in Users, k \in 1..(Len(convs) + 1),
          m \in {NULL} \cup (1..(Len(msgs) + 1)) :
          mark_conversation_read(u, k, m)
    \/ \E u \in Users : list_applications(u)
    \/ \E u \in Users, p \in ReqPostIds, saved \in BOOLEAN :
          set_saved_post_for_student(u, p, saved)
    \/ \E u \in Users, card \in ReqCardIds, saved \in BOOLEAN :
          set_saved_student_for_company(u, card, NULL, saved)
    \/ \E u \in Users, s \in ReqUserIds \cup {NULL}, saved \in BOOLEAN :
          set_saved_student_for_company(u, NULL, s, saved)
    \/ \E u \in Users, bio \in Bios : update_me(u, bio)
    \/ \E u \in Users, p \in ReqPostIds : delete_post(u, p)

Spec == Init /\ [][Next]_vars

(***************************************************************************)
(* Concurrent decision requests.  The session neither autoflushes nor      *)
(* holds a read transaction: a handler whose ledger row already exists     *)
(* reads (Begin...) before SQLite's write lock is taken, and another       *)
(* request may commit before this one flushes and commits (Commit...).     *)
(* A handler that has to insert its ledger row flushes first and so runs   *)
(* under the write lock: that is the atomic action above.  A request       *)
(* reads the clock once, when it begins.                                   *)
(***************************************************************************)
\* (fault: the table has no unique constraint)
no_unique_constraint(p, s) == TRUE

\* UniqueConstraint("post_id", "student_user_id")
uq_post_student_application(p, s) == AppOf(p, s) = 0

BeginStudentDecision(u, p, d) ==
    /\ student_decision_status(u, p) = 200
    /\ SintRow(u, p) # 0
    /\ Cardinality(inflight) < MaxInflight
    /\ now < MaxClock
    /\ inflight' = inflight \cup
          {[op |-> "student", user |-> u, target |-> p, decision |-> d,
            at |-> now,
            passed |-> _company_has_passed_student(
                           posts[p].company_user_id, u),
            pending |-> 0,
            post |-> p,
            found |-> AppOf(p, u)]}
    /\ now' = now + 1
    /\ last' = Request("begin_student_decision", u, p, d)
    /\ UNCHANGED <<posts, sposts, sint, cint, apps, convs, msgs, parts,
                   changes>>

\* the status the student request creates its application with ("": none)
StudentInitialStatus(r) ==
    IF r.passed THEN "DECLINED"
    ELSE IF r.decision = "LIKE" THEN "ACCEPTED"
    ELSE ""

CommitStudentDecision(r) ==
    /\ r \in inflight
    /\ r.op = "student"
    /\ inflight' = inflight \ {r}
    /\ IF StudentInitialStatus(r) = "" \/ r.found # 0
       THEN /\ sint' = SintDecided(r.user, r.target, r.decision, r.at)
            /\ UNCHANGED <<apps, convs, msgs, parts, changes>>
       ELSE IF ~uq_post_student_application(r.post, r.user)
       THEN \* IntegrityError: the transaction is rolled back
            UNCHANGED <<sint, apps, convs, msgs, parts, changes>>
       ELSE /\ sint' = SintDecided(r.user, r.target, r.decision, r.at)
            /\ SetChat(InsertApplication(Chat, r.user, r.post,
                                         StudentInitialStatus(r), r.at))
    /\ last' = Request("commit_student_decision", r.user, r.target,
                       r.decision)
    /\ UNCHANGED <<posts, sposts, cint, now>>

BeginCompanyDecision(u, card, d) ==
    /\ company_decision_status(u, card) = 200
    /\ CintRow(u, card) # 0
    /\ Cardinality(inflight) < MaxInflight
    /\ now < MaxClock
    /\ \E a \in PendingFirst(u, sposts[card].student_user_id) :
         LET s == sposts[card].student_user_id
             passed_post == IF a = 0
                            THEN _latest_company_post_student_passed(u, s)
                            ELSE 0
         IN inflight' = inflight \cup
               {[op |-> "company", user |-> u, target |-> card,
                 decision |-> d, at |-> now, passed |-> FALSE,
                 pending |-> a,
                 post |-> passed_post,
                 found |-> IF passed_post = 0 THEN 0
                           ELSE AppOf(passed_post, s)]}
    /\ now' = now + 1
    /\ last' = Request("begin_company_decision", u, card, d)
    /\ UNCHANGED <<posts, sposts, sint, cint, apps, convs, msgs, parts,
                   changes>>

CommitCompanyDecision(r) ==
    /\ r \in inflight
    /\ r.op = "company"
    /\ inflight' = inflight \ {r}
    /\ LET s == sposts[r.target].student_user_id
           new_status == DecisionToStatus(r.decision)
       IN IF r.pending # 0
          THEN /\ cint' = CintDecided(r.user, r.target, r.decision, r.at)
               /\ SetChat([Chat EXCEPT
                     !.apps = [apps EXCEPT ![r.pending].status = new_status,
                                           ![r.pending].updated_at = r.at],
                     !.changes = [changes EXCEPT ![r.pending] =
                                    IF apps[r.pending].status = new_status
                                    THEN @ ELSE @ + 1],
                     !.msgs = IF ConvOf(r.pending) = 0 THEN msgs
                              ELSE Append(msgs,
                                     SystemMessage(ConvOf(r.pending),
                                        DecisionSystemText(new_status),
                                        r.at))])
          ELSE IF r.post = 0 \/ r.found # 0
          THEN /\ cint' = CintDecided(r.user, r.target, r.decision, r.at)
               /\ UNCHANGED <<apps, convs, msgs, parts, changes>>
          ELSE IF ~uq_post_student_application(r.post, s)
          THEN UNCHANGED <<cint, apps, convs, msgs, parts, changes>>
          ELSE /\ cint' = CintDecided(r.user, r.target, r.decision, r.at)
               /\ SetChat(InsertApplication(Chat, s, r.post, "DECLINED",
                                            r.at))
    /\ last' = Request("commit_company_decision", r.user, r.target,
                       r.decision)
    /\ UNCHANGED <<posts, sposts, sint, now>>

NextConc ==
    \/ \E u \in Users, p \in ReqPostIds, d \in ReqDecision :
          student_decision_post(u, p, d)
    \/ \E u \in Users, card \in ReqCardIds, d \in ReqDecision :
          company_decision_student_post(u, card, d)
    \/ \E u \in Students, p \in PostIds, d \in ReqDecision :
          BeginStudentDecision(u, p, d)
    \/ \E r \in inflight : CommitStudentDecision(r)
    \/ \E u \in Companies, card \in DOMAIN sposts, d \in ReqDecision :
          BeginCompanyDecision(u, card, d)
    \/ \E r \in inflight : CommitCompanyDecision(r)

SpecConc == Init /\ [][NextConc]_vars

(***************************************************************************)
(* First interactions.  A handler looks its ledger row up, and when there  *)
(* is none it adds a new row and flushes.  The lookup takes no lock, so    *)
(* another request may insert the row for the same pair between the        *)
(* lookup (BeginFirstInteraction) and the flush (CommitFirstInteraction):  *)
(* the insert then violates the table's unique constraint and the request  *)
(* fails.  After a successful flush the handler holds the write lock and   *)
(* the rest of it runs without interleaving.  Time passes between the      *)
(* lookup and the flush.                                                   *)
(***************************************************************************)
FirstOps == {"first_student_decision", "first_set_saved_post",
             "first_company_decision", "first_set_saved_student"}

\* (fault: the table has no unique constraint)
no_uq_student_post(s, p) == TRUE

\* UniqueConstraint("student_user_id", "post_id")
uq_student_post(s, p) == SintRow(s, p) = 0

\* (fault: the table has no unique constraint)
no_uq_company_student_post(c, card) == TRUE

\* UniqueConstraint("company_user_id", "student_post_id")
uq_company_student_post(c, card) == CintRow(c, card) = 0

FirstInteraction(op, u, target, arg) ==
    [op |-> op, user |-> u, target |-> target, decision |-> arg,
     at |-> 0, passed |-> FALSE, pending |-> 0, post |-> 0, found |-> 0]

BeginFirstInteraction(op, u, target, arg) ==
    /\ Cardinality(inflight) < MaxInflight
    /\ \/ /\ op = "first_student_decision"
          /\ arg \in ReqDecision
          /\ student_decision_status(u, target) = 200
          /\ SintRow(u, target) = 0
       \/ /\ op = "first_set_saved_post"
          /\ arg \in {"SAVE", "UNSAVE"}
          /\ set_saved_post_status(u, target) = 200
          /\ SintRow(u, target) = 0
       \/ /\ op = "first_company_decision"
          /\ arg \in ReqDecision
          /\ company_decision_status(u, target) = 200
          /\ CintRow(u, target) = 0
       \/ /\ op = "first_set_saved_student"
          /\ arg \in {"SAVE", "UNSAVE"}
          /\ set_saved_student_status(u, target, NULL) = 200
          /\ CintRow(u, target) = 0
    /\ FirstInteraction(op, u, target, arg) \notin inflight
    /\ inflight' = inflight \cup {FirstInteraction(op, u, target, arg)}
    /\ now < MaxClock
    /\ now' = now + 1
    /\ UNCHANGED <<posts, sposts, sint, cint, apps, convs, msgs, parts,
                   changes, last>>

\* the ledger after the flush of the new row and the handler's assignment
InsertedSint(r) ==
    LET t == Append(sint, NewSintRow(r.user, r.target))
    IN IF r.op = "first_student_decision"
       THEN [t EXCEPT ![Len(t)].decision = r.decision,
                      ![Len(t)].decided_at = now]
       ELSE [t EXCEPT ![Len(t)].saved = (r.decision = "SAVE"),
                      ![Len(t)].saved_at =
                          IF r.decision = "SAVE" THEN now ELSE NULL]

InsertedCint(r) ==
    LET t == Append(cint, NewCintRow(r.user, r.target))
    IN IF r.op = "first_company_decision"
       THEN [t EXCEPT ![Len(t)].decision = r.decision,
                      ![Len(t)].decided_at = now]
       ELSE [t EXCEPT ![Len(t)].saved = (r.decision = "SAVE"),
                      ![Len(t)].saved_at =
                          IF r.decision = "SAVE" THEN now ELSE NULL]

CommitFirstInteraction(r) ==
    /\ r \in inflight
    /\ r.op \in FirstOps
    /\ inflight' = inflight \ {r}
    /\ IF r.op \in {"first_student_decision", "first_set_saved_post"}
       THEN IF ~uq_student_post(r.user, r.target)
            THEN \* IntegrityError: the transaction is rolled back
                 UNCHANGED <<sint, cint, apps, convs, msgs, parts, changes,
                             now, last>>
            ELSE /\ now < MaxClock
                 /\ sint' = InsertedSint(r)
                 /\ IF r.op = "first_student_decision"
                    THEN SetChat(StudentDecisionChat(r.user, r.target,
                                                     r.decision, now))
                    ELSE UNCHANGED <<apps, convs, msgs, parts, changes>>
                 /\ now' = now + 1
                 /\ last' = Request(r.op, r.user, r.target, r.decision)
                 /\ UNCHANGED cint
       ELSE IF ~uq_company_student_post(r.user, r.target)
            THEN UNCHANGED <<sint, cint, apps, convs, msgs, parts, changes,
                             now, last>>
            ELSE /\ now < MaxClock
                 /\ cint' = InsertedCint(r)
                 /\ IF r.op = "first_company_decision"
                    THEN \E a \in PendingFirst(r.user,
                                     sposts[r.target].student_user_id) :
                            SetChat(
                              _update_pending_application_status_for_company_student_if_any(
                                r.user, sposts[r.target].student_user_id,
                                r.decision, a, now))
                    ELSE UNCHANGED <<apps, convs, msgs, parts, changes>>
                 /\ now' = now + 1
                 /\ last' = Request(r.op, r.user, r.target, r.decision)
                 /\ UNCHANGED sint
    /\ UNCHANGED <<posts, sposts>>

NextFirst ==
    \/ \E u \in Students, p \in PostIds, d \in ReqDecision :
          student_decision_post(u, p, d)
    \/ \E u \in Companies, card \in DOMAIN sposts, d \in ReqDecision :
          company_decision_student_post(u, card, d)
    \/ \E u \in Students, p \in PostIds, saved \in BOOLEAN :
          set_saved_post_for_student(u, p, saved)
    \/ \E u \in Companies, card \in DOMAIN sposts, saved \in BOOLEAN :
          set_saved_student_for_company(u, card, NULL, saved)
    \/ \E op \in FirstOps, u \in Users, target \in PostIds,
          arg \in ReqDecision \cup {"SAVE", "UNSAVE"} :
          BeginFirstInteraction(op, u, target, arg)
    \/ \E r \in inflight : CommitFirstInteraction(r)

SpecFirst == Init /\ [][NextFirst]_vars

(***************************************************************************)
(* Concurrent conversation requests.  A handler's lookups (its own         *)
(* participant row, the other party's, max(Message.id)) take no lock; the  *)
(* write lock is taken by the handler's first flush, and everything from   *)
(* there to the commit runs without interleaving.  Begin... is the         *)
(* lookups made before the first flush, Commit... the flush and what       *)
(* follows it.  An insert that meets a row another request has committed   *)
(* since the lookup violates uq_conversation_user and the request fails    *)
(* with its transaction rolled back.                                       *)
(***************************************************************************)
\* (fault: the table has no unique constraint)
no_uq_conversation_user(k, u) == TRUE

\* UniqueConstraint("conversation_id", "user_id")
uq_conversation_user(k, u) == PartRow(k, u) = 0

OtherParty(k, u) ==
    IF apps[convs[k].application_id].student_user_id = u
    THEN apps[convs[k].application_id].company_user_id
    ELSE apps[convs[k].application_id].student_user_id

\* the INSERT of a participant row the request's lookup did not find
InsertParticipant(pt, k, u, last_read_message_id, at) ==
    Append(pt, [conversation_id |-> k, user_id |-> u,
                last_read_message_id |-> last_read_message_id,
                updated_at |-> at])

BeginSendMessage(u, k) ==
    /\ send_message_status(u, k) = 200
    /\ Cardinality(inflight) < MaxInflight
    /\ now < MaxChatClock
    /\ inflight' = inflight \cup
          {[op |-> "send_message", user |-> u, target |-> k, arg |-> 0,
            at |-> now,
            row |-> PartRow(k, u) # 0,
            other |-> PartRow(k, u) = 0 \/ PartRow(k, OtherParty(k, u)) # 0,
            cursor |-> NULL,
            seen |-> MaxMsgId(k)]}
    /\ now' = now + 1
    /\ UNCHANGED <<posts, sposts, sint, cint, apps, convs, msgs, parts,
                   changes, last>>

CommitSendMessage(r) ==
    /\ r \in inflight
    /\ r.op = "send_message"
    /\ inflight' = inflight \ {r}
    /\ LET u == r.user
           k == r.target
           o == OtherParty(k, u)
           m == Len(msgs) + 1
           msg == [conversation_id |-> k, type |-> "USER",
                   sender_user_id |-> u, text |-> USER_TEXT,
                   created_at |-> now]
       IN IF \/ ~r.row /\ ~uq_conversation_user(k, u)
             \/ ~r.other /\ ~uq_conversation_user(k, o)
          THEN \* IntegrityError: the transaction is rolled back
               UNCHANGED <<msgs, parts, last>>
          ELSE /\ msgs' = Append(msgs, msg)
               /\ parts' =
                    IF ~r.row
                    THEN \* the sender's row is flushed with the message;
                         \* the other party's lookup follows the flush
                         LET p1 == InsertParticipant(parts, k, u, r.seen,
                                                     now)
                             p2 == _ensure_participant(p1, k, o, TRUE,
                                       MsgIds(k) \cup {m}, now)
                         IN SetCursor(p2, k, u, m, now)
                    ELSE IF ~r.other
                    THEN SetCursor(
                           InsertParticipant(parts, k, o, r.seen, now),
                           k, u, m, now)
                    ELSE SetCursor(parts, k, u, m, now)
               /\ last' = Request("commit_send_message", u, k, 0)
    /\ UNCHANGED <<posts, sposts, sint, cint, apps, convs, changes, now>>

BeginMarkRead(u, k, lastReadMessageId) ==
    /\ k \in DOMAIN convs
    /\ mark_conversation_read_status(u, k, lastReadMessageId) = 200
    /\ Cardinality(inflight) < MaxInflight
    /\ now < MaxChatClock
    /\ inflight' = inflight \cup
          {[op |-> "mark_conversation_read", user |-> u, target |-> k,
            arg |-> lastReadMessageId,
            at |-> now,
            row |-> PartRow(k, u) # 0,
            other |-> TRUE,
            \* the cursor of the row as the session loaded it
            cursor |-> IF PartRow(k, u) # 0
                       THEN parts[PartRow(k, u)].last_read_message_id
                       ELSE NULL,
            \* with the row missing, the target is read after the flush
            seen |-> IF PartRow(k, u) # 0
                     THEN MarkReadTarget(k, lastReadMessageId)
                     ELSE NULL]}
    /\ now' = now + 1
    /\ UNCHANGED <<posts, sposts, sint, cint, apps, convs, msgs, parts,
                   changes, last>>

CommitMarkRead(r) ==
    /\ r \in inflight
    /\ r.op = "mark_conversation_read"
    /\ inflight' = inflight \ {r}
    /\ IF ~r.row /\ ~uq_conversation_user(r.target, r.user)
       THEN \* IntegrityError: the transaction is rolled back
            UNCHANGED <<parts, last>>
       ELSE /\ parts' =
                 IF ~r.row
                 THEN \* the new row is flushed, then the target is read
                      LET p1 == InsertParticipant(parts, r.target, r.user,
                                                  NULL, now)
                          target_id == MarkReadTarget(r.target, r.arg)
                      IN IF target_id = NULL THEN p1
                         ELSE [p1 EXCEPT
                                 ![Len(p1)].last_read_message_id = target_id]
                 ELSE IF r.seen = NULL THEN parts
                 ELSE IF r.seen = r.cursor
                 THEN \* the attribute is assigned the value it was loaded
                      \* with: the UPDATE sets updated_at only
                      [parts EXCEPT
                         ![PartRow(r.target, r.user)].updated_at = now]
                 ELSE SetCursor(parts, r.target, r.user, r.seen, now)
            /\ last' = Request("commit_mark_conversation_read", r.user,
                               r.target, r.arg)
    /\ UNCHANGED <<posts, sposts, sint, cint, apps, convs, msgs, changes,
                   now>>

\* the applications of the listing whose conversation has no row for u
Unlisted(u) ==
    {a \in ListedApps(u) : ConvOf(a) # 0 /\ PartRow(ConvOf(a), u) = 0}

BeginListApplications(u) ==
    /\ Unlisted(u) # {}
    /\ Cardinality(inflight) < MaxInflight
    /\ now < MaxChatClock
    /\ LET a == CHOOSE x \in Unlisted(u) : \A y \in Unlisted(u) \ {x} :
                   \/ apps[x].updated_at > apps[y].updated_at
                   \/ apps[x].updated_at = apps[y].updated_at /\ x > y
       IN inflight' = inflight \cup
             {[op |-> "list_applications", user |-> u,
               target |-> ConvOf(a), arg |-> 0, at |-> now,
               row |-> FALSE, other |-> TRUE, cursor |-> NULL,
               seen |-> MaxMsgId(ConvOf(a))]}
    /\ now' = now + 1
    /\ UNCHANGED <<posts, sposts, sint, cint, apps, convs, msgs, parts,
                   changes, last>>

CommitListApplications(r) ==
    /\ r \in inflight
    /\ r.op = "list_applications"
    /\ inflight' = inflight \ {r}
    /\ IF ~uq_conversation_user(r.target, r.user)
       THEN \* IntegrityError: the transaction is rolled back
            UNCHANGED <<parts, last>>
       ELSE /\ parts' = ListBackfill(
                   InsertParticipant(parts, r.target, r.user, r.seen, now),
                   r.user, ListedApps(r.user))
            /\ last' = Request("commit_list_applications", r.user,
                               r.target, 0)
    /\ UNCHANGED <<posts, sposts, sint, cint, apps, convs, msgs, changes,
                   now>>

NextChat ==
    \/ \E u \in Users, k \in DOMAIN convs : BeginSendMessage(u, k)
    \/ \E r \in inflight : CommitSendMessage(r)
    \/ \E u \in Users, k \in DOMAIN convs,
          lastReadMessageId \in {NULL} \cup DOMAIN msgs :
          BeginMarkRead(u, k, lastReadMessageId)
    \/ \E r \in inflight : CommitMarkRead(r)
    \/ \E u \in Users : BeginListApplications(u)
    \/ \E r \in inflight : CommitListApplications(r)

SpecChat == Init /\ [][NextChat]_vars

(***************************************************************************)
(* A database in which an Application has lost its Conversation.  The      *)
(* schema does not forbid it (the foreign key points from the conversation *)
(* to the application), no request produces it, and both status-changing   *)
(* code paths have a branch for it; this is the state those branches are   *)
(* written for.                                                            *)
(***************************************************************************)
InitOrphan ==
    /\ posts = [p \in PostIds |-> [company_user_id |-> 1, is_active |-> TRUE]]
    /\ sposts = << NewCard(2, "Student profile", 0),
                   NewCard(3, "Student profile", 0) >>
    /\ cint = <<>>
    /\ sint = SeedLedger("PENDING", 2)
    /\ \E st \in ApplicationStatus :
          apps = << [post_id |-> 1, student_user_id |-> 2,
                     company_user_id |-> 1, status |-> st,
                     created_at |-> 0, updated_at |-> 0] >>
    /\ convs = <<>>
    /\ msgs = <<>>
    /\ parts = <<>>
    /\ changes = <<0>>
    /\ now = 1
    /\ last = NoReq
    /\ inflight = {}

SpecOrphan == InitOrphan /\ [][Next]_vars

(***************************************************************************)
(* Steps and observations the properties below speak about.                *)
(***************************************************************************)
\* this step is the request req (every writing request reads the clock)
Handles(op, u, target) ==
    /\ now' = now + 1
    /\ last'.op = op
    /\ last'.user = u
    /\ last'.target = target

AppsOf(p, s) ==
    {i \in DOMAIN apps : apps[i].post_id = p /\ apps[i].student_user_id = s}

ConvsOf(a) == {k \in DOMAIN convs : convs[k].application_id = a}

SystemMsgIds(k) == {i \in MsgIds(k) : msgs[i].type = "SYSTEM"}

LatestSystemText(k) == msgs[Max(SystemMsgIds(k))].text

\* the same observations on given tables (used for the state after a step)
AppsIn(ap, p, s) ==
    {i \in DOMAIN ap : ap[i].post_id = p /\ ap[i].student_user_id = s}

AppIn(ap, p, s) == First(AppsIn(ap, p, s))

ConvsIn(cv, a) == {k \in DOMAIN cv : cv[k].application_id = a}

ConvIn(cv, a) == First(ConvsIn(cv, a))

MsgIdsIn(ms, k) == {i \in DOMAIN ms : ms[i].conversation_id = k}

LatestSystemTextIn(ms, k) ==
    ms[Max({i \in MsgIdsIn(ms, k) : ms[i].type = "SYSTEM"})].text

(***************************************************************************)
(* C1: when student s LIKEs an active post p whose company has not PASSed  *)
(* s's card and no Application(p, s) exists, the request creates exactly   *)
(* one Application(p, s), ACCEPTED, with one conversation that holds       *)
(* exactly one message, the SYSTEM message "Ready to connect?"; a LIKE     *)
(* when Application(p, s) exists leaves the numbers of applications,       *)
(* conversations and messages as they were.                                *)
(***************************************************************************)
C1_FirstLike(s, p) ==
    /\ Len(apps') = Len(apps) + 1
    /\ Len(convs') = Len(convs) + 1
    /\ Len(msgs') = Len(msgs) + 1
    /\ Cardinality(AppsIn(apps', p, s)) = 1
    /\ apps'[AppIn(apps', p, s)].status = "ACCEPTED"
    /\ Cardinality(ConvsIn(convs', AppIn(apps', p, s))) = 1
    /\ LET k == ConvIn(convs', AppIn(apps', p, s))
       IN /\ Cardinality(MsgIdsIn(msgs', k)) = 1
          /\ \A i \in MsgIdsIn(msgs', k) :
                /\ msgs'[i].type = "SYSTEM"
                /\ msgs'[i].sender_user_id = NULL
                /\ msgs'[i].text = ACCEPTED_TEXT

C1_RepeatedLike ==
    /\ Len(apps') = Len(apps)
    /\ Len(convs') = Len(convs)
    /\ Len(msgs') = Len(msgs)

C2_LikeAfterPassDeclined ==
    [][\A s \in Students, p \in PostIds :
          (/\ Handles("student_decision", s, p)
           /\ last'.arg = "LIKE"
           /\ _company_has_passed_student(posts[p].company_user_id, s))
          => /\ AppIn(apps', p, s) # 0
             /\ apps'[AppIn(apps', p, s)].status = "DECLINED"
             /\ LatestSystemTextIn(msgs',
                   ConvIn(convs', AppIn(apps', p, s))) = DECLINED_TEXT]_vars

(***************************************************************************)
(* C3: under every interleaving of concurrent decision requests no two     *)
(* applications share a (post, student) pair, and every application has a  *)
(* defined status and exactly one conversation.                            *)
(***************************************************************************)
C3_UniqueApplication ==
    /\ \A i, j \in DOMAIN apps :
          (apps[i].post_id = apps[j].post_id
             /\ apps[i].student_user_id = apps[j].student_user_id) => i = j
    /\ \A a \in DOMAIN apps :
          /\ apps[a].status \in ApplicationStatus
          /\ Cardinality(ConvsOf(a)) = 1

\* a request that found no application is still in flight while another
\* request has committed the application for the same pair
C3_Witness ==
    \E r \in inflight :
        /\ r.op = "student"
        /\ r.found = 0
        /\ StudentInitialStatus(r) # ""
        /\ AppOf(r.post, r.user) # 0
        /\ apps[AppOf(r.post, r.user)].created_at > 0

(***************************************************************************)
(* C4: applications and conversations correspond one to one.               *)
(***************************************************************************)
C4_OneConversationPerApplication ==
    /\ \A a \in DOMAIN apps : Cardinality(ConvsOf(a)) = 1
    /\ \A k \in DOMAIN convs : convs[k].application_id \in DOMAIN apps
    /\ Len(convs) = Len(apps)

\* two applications, one of them created by a request, after a status
\* change and a chat message
C4_Witness ==
    /\ Len(apps) >= 2
    /\ \E a \in DOMAIN apps : changes[a] > 0
    /\ \E i \in DOMAIN msgs : msgs[i].type = "USER"

(***************************************************************************)
(* C5: a status only ever changes from PENDING to ACCEPTED or from PENDING *)
(* to DECLINED, in every operation.                                        *)
(***************************************************************************)
C5_OnlyFromPending ==
    [][\A a \in DOMAIN apps :
          apps'[a].status # apps[a].status =>
             /\ apps[a].status = "PENDING"
             /\ apps'[a].status \in {"ACCEPTED", "DECLINED"}]_vars

\* C5 as amended: the decision endpoints change a status only from
\* PENDING, to ACCEPTED or DECLINED; the application-status endpoint sets
\* ACCEPTED or DECLINED over any other status, also over ACCEPTED and
\* DECLINED; no operation sets a status to PENDING or removes a row.
C5_StatusMoves ==
    [][/\ Len(apps') >= Len(apps)
       /\ \A a \in DOMAIN apps :
             apps'[a].status # apps[a].status =>
                /\ apps'[a].status \in {"ACCEPTED", "DECLINED"}
                /\ \/ apps[a].status = "PENDING"
                   \/ last'.op = "set_application_status"]_vars

\* the status endpoint has changed a status that a decision or an earlier
\* status request had already changed
C5_Witness ==
    \E a \in DOMAIN apps :
        /\ changes[a] >= 2
        /\ last.op = "set_application_status"
        /\ last.target = a

(***************************************************************************)
(* C6: every status change appends exactly one SYSTEM message, with the    *)
(* fixed text of the new status, to the application's conversation, and a  *)
(* conversation holds 1 + (number of status changes) SYSTEM messages.      *)
(***************************************************************************)
C6_Count ==
    \A a \in DOMAIN apps : \A k \in ConvsOf(a) :
        Cardinality(SystemMsgIds(k)) = 1 + changes[a]

C6_Step ==
    \A a \in DOMAIN apps :
        IF apps'[a].status # apps[a].status
        THEN /\ changes'[a] = changes[a] + 1
             /\ Len(msgs') = Len(msgs) + 1
             /\ SubSeq(msgs', 1, Len(msgs)) = msgs
             /\ msgs'[Len(msgs')].conversation_id = ConvOf(a)
             /\ msgs'[Len(msgs')].type = "SYSTEM"
             /\ msgs'[Len(msgs')].sender_user_id = NULL
             /\ msgs'[Len(msgs')].text =
                   (IF apps'[a].status = "ACCEPTED" THEN ACCEPTED_TEXT
                    ELSE DECLINED_TEXT)
             /\ apps'[a].status \in {"ACCEPTED", "DECLINED"}
        ELSE changes'[a] = changes[a]

C6_SystemMessagePerChange == [](C6_Count) /\ [][C6_Step]_vars

\* a company decision has just changed a status
C6_Witness ==
    \E a \in DOMAIN apps :
        /\ changes[a] >= 1
        /\ last.op = "company_decision"
        /\ apps[a].updated_at = now - 1
        /\ Cardinality(SystemMsgIds(ConvOf(a))) >= 2

(***************************************************************************)
(* C7: an Application created because student s liked post p of company c  *)
(* is transitioned by c's next decision on s's card: DECLINED with the     *)
(* decline message after PASS, ACCEPTED after LIKE.                        *)
(***************************************************************************)
CreatedByStudentLike(a) ==
    /\ apps[a].created_at > 0
    /\ SintRow(apps[a].student_user_id, apps[a].post_id) # 0
    /\ sint[SintRow(apps[a].student_user_id, apps[a].post_id)].decision
          = "LIKE"

C7_CompanyDecisionTransitions ==
    [][\A c \in Companies, card \in DOMAIN sposts :
          Handles("company_decision", c, card) =>
             \A a \in DOMAIN apps :
                (/\ apps[a].company_user_id = c
                 /\ apps[a].student_user_id = sposts[card].student_user_id
                 /\ CreatedByStudentLike(a))
                => /\ apps'[a].status = DecisionToStatus(last'.arg)
                   /\ last'.arg = "PASS" =>
                         LatestSystemTextIn(msgs', ConvOf(a)) = DECLINED_TEXT]_vars

(***************************************************************************)
(* C8: a company decision that repeats the request before it (same         *)
(* company, same card, same value) appends no message, creates no          *)
(* application and changes no application's status or updatedAt.           *)
(***************************************************************************)
C8_RepeatedCompanyDecision ==
    [][\A c \in Companies, card \in DOMAIN sposts :
          (Handles("company_decision", c, card) /\ last' = last) =>
             /\ apps' = apps
             /\ convs' = convs
             /\ msgs' = msgs]_vars

(***************************************************************************)
(* C9: after every successful mark-read by user u on conversation k, the   *)
(* unread count the applications listing computes for u on k is 0.         *)
(***************************************************************************)
C9_MarkReadZero ==
    [][\A u \in Users, k \in DOMAIN convs :
          Handles("mark_conversation_read", u, k) =>
             ListedUnread(k, u)' = 0]_vars

(***************************************************************************)
(* C10: the unread count of user u on conversation k never decreases in a  *)
(* step other than u's own mark-read on k.                                 *)
(***************************************************************************)
C10_UnreadMonotone ==
    [][\A u \in Users, k \in DOMAIN convs :
          (/\ now' = now + 1
           /\ ~Handles("mark_conversation_read", u, k))
          => ListedUnread(k, u)' >= ListedUnread(k, u)]_vars

\* C10 as amended: ... other than u's own mark-read on k and u's own
\* message send into k, which moves u's cursor to the new message.
C10_UnreadMonotoneButOwnSend ==
    [][\A u \in Users, k \in DOMAIN convs :
          (/\ now' = now + 1
           /\ ~Handles("mark_conversation_read", u, k)
           /\ ~Handles("send_message", u, k))
          => ListedUnread(k, u)' >= ListedUnread(k, u)]_vars

\* a user has unread messages after a request that is neither a mark-read
\* nor a send
C10_Witness ==
    \E u \in Users, k \in DOMAIN convs :
        /\ ListedUnread(k, u) >= 1
        /\ last.op \in {"set_application_status", "company_decision",
                        "student_decision", "list_applications"}

(***************************************************************************)
(* C11: the unread count the applications listing reports for user u on    *)
(* conversation k is the number of messages of k whose id is greater than  *)
(* u's lastReadMessageId (null counts as 0) and whose sender is non-null    *)
(* and not u; SYSTEM messages and u's own messages are never counted.      *)
(***************************************************************************)
\* the cursor of u on k when the listing counts: a missing row has been
\* backfilled by then
ListedCursor(k, u) ==
    LET pt == ListBackfill(parts, u, ListedApps(u))
    IN pt[First({j \in DOMAIN pt : pt[j].conversation_id = k
                                     /\ pt[j].user_id = u})]
           .last_read_message_id

C11_UnreadFormula ==
    \A u \in Users : \A a \in ListedApps(u) : \A k \in ConvsOf(a) :
        LET cursor == ListedCursor(k, u)
            from == IF cursor = NULL THEN 0 ELSE cursor
            counted == {i \in DOMAIN msgs :
                           /\ msgs[i].conversation_id = k
                           /\ i > from
                           /\ msgs[i].sender_user_id # NULL
                           /\ msgs[i].sender_user_id # u}
        IN /\ ListedUnread(k, u) = Cardinality(counted)
           /\ \A i \in counted :
                 msgs[i].type # "SYSTEM" /\ msgs[i].sender_user_id # u

\* u has an unread message on k, and behind u's cursor there are also a
\* SYSTEM message and a message of u's own
C11_Witness ==
    \E u \in Users, k \in DOMAIN convs :
        /\ PartRow(k, u) # 0
        /\ parts[PartRow(k, u)].last_read_message_id # NULL
        /\ ListedUnread(k, u) = 1
        /\ \E i \in MsgIds(k) :
              /\ i > parts[PartRow(k, u)].last_read_message_id
              /\ msgs[i].type = "SYSTEM"

(***************************************************************************)
(* C12: a send into a conversation whose Application is DECLINED is        *)
(* rejected with the domain error (400), and appends no message and        *)
(* changes no read cursor or participant row: no step is a send into such  *)
(* a conversation, and its USER messages stay as they are.                 *)
(***************************************************************************)
Declined(k) == apps[convs[k].application_id].status = "DECLINED"

UserMsgsIn(ms, k) == {i \in MsgIdsIn(ms, k) : ms[i].type = "USER"}

C12_Rejected ==
    \A k \in DOMAIN convs : \A u \in Users :
        (can_access_conversation(k, u) /\ Declined(k))
           => send_message_status(u, k) = 400

C12_NoEffect ==
    \A k \in DOMAIN convs :
        Declined(k) =>
           /\ \A u \in Users : ~Handles("send_message", u, k)
           /\ UserMsgsIn(msgs', k) = UserMsgsIn(msgs, k)

C12_SendIntoDeclinedRejected == [](C12_Rejected) /\ [][C12_NoEffect]_vars

\* a conversation that took a chat message and was declined afterwards
C12_Witness ==
    \E k \in DOMAIN convs :
        /\ Declined(k)
        /\ UserMsgsIn(msgs, k) # {}
        /\ last.op \in {"set_application_status", "company_decision"}

(***************************************************************************)
(* C13 (Scenario C): when a student LIKEs post P and the owning company    *)
(* then sets the Application's status to DECLINED, the conversation holds  *)
(* exactly 2 SYSTEM messages, first "Message still pending" and then the   *)
(* decline text, and a chat send by either party now fails.                *)
(***************************************************************************)
C13_ScenarioC ==
    [][\A c \in Companies, a \in DOMAIN apps :
          (/\ Handles("set_application_status", c, a)
           /\ CreatedByStudentLike(a)
           /\ changes[a] = 0
           /\ apps'[a].status = "DECLINED")
          => LET k == ConvOf(a)
                 sys == {i \in MsgIdsIn(msgs', k) : msgs'[i].type = "SYSTEM"}
             IN /\ Cardinality(sys) = 2
                /\ msgs'[Min(sys)].text = PENDING_TEXT
                /\ msgs'[Max(sys)].text = DECLINED_TEXT
                /\ \A u \in {apps[a].student_user_id, apps[a].company_user_id} :
                      send_message_status(u, k)' = 400]_vars

(***************************************************************************)
(* C14: for a user u that is neither the student nor the company of the    *)
(* Application of conversation k, reading k's messages, sending into k and *)
(* marking k read fail with 403 and change nothing; every participant row  *)
(* belongs to one of the two parties of its conversation's Application.    *)
(***************************************************************************)
Party(k, u) ==
    u \in {apps[convs[k].application_id].student_user_id,
           apps[convs[k].application_id].company_user_id}

C14_Forbidden ==
    /\ \A k \in DOMAIN convs : \A u \in Users :
          ~Party(k, u) =>
             /\ get_messages_status(u, k) = 403
             /\ get_messages(u, k) = {}
             /\ send_message_status(u, k) = 403
             /\ \A m \in {NULL} \cup (1..(Len(msgs) + 1)) :
                   mark_conversation_read_status(u, k, m) = 403
    /\ \A i \in DOMAIN parts : Party(parts[i].conversation_id, parts[i].user_id)

C14_NoEffect ==
    \A k \in DOMAIN convs : \A u \in Users :
        ~Party(k, u) =>
           /\ ~Handles("send_message", u, k)
           /\ ~Handles("mark_conversation_read", u, k)
           /\ \A i \in MsgIdsIn(msgs', k) : msgs'[i].sender_user_id # u

C14_OnlyParties == [](C14_Forbidden) /\ [][C14_NoEffect]_vars

\* two conversations of different students, with participant rows and a
\* chat message: each student is a stranger to the other's conversation
C14_Witness ==
    \E k1, k2 \in DOMAIN convs : \E u \in Students :
        /\ Party(k1, u) /\ ~Party(k2, u)
        /\ PartRow(k1, u) # 0
        /\ \E i \in DOMAIN parts : parts[i].conversation_id = k2
        /\ \E i \in DOMAIN msgs : msgs[i].type = "USER"

(***************************************************************************)
(* C15: post p is in student s's feed exactly if p is active, s's decision *)
(* on p is not PASS and no Application(p, s) with a status other than      *)
(* PENDING exists; a LIKEd post whose Application is still PENDING stays   *)
(* in the feed.                                                            *)
(***************************************************************************)
C15_StudentFeed ==
    \A s \in Students : \A p \in DOMAIN posts :
        p \in student_feed(s) <=>
           /\ posts[p].is_active
           /\ ~\E i \in DOMAIN sint :
                 /\ sint[i].student_user_id = s
                 /\ sint[i].post_id = p
                 /\ sint[i].decision = "PASS"
           /\ ~\E a \in AppsOf(p, s) : apps[a].status # "PENDING"

\* a LIKEd post with a PENDING application is in the feed, while another
\* post of the same student is hidden by its resolved application
C15_Witness ==
    \E s \in Students : \E p, q \in DOMAIN posts :
        /\ SintRow(s, p) # 0
        /\ sint[SintRow(s, p)].decision = "LIKE"
        /\ AppOf(p, s) # 0
        /\ apps[AppOf(p, s)].status = "PENDING"
        /\ p \in student_feed(s)
        /\ posts[q].is_active
        /\ SintRow(s, q) # 0
        /\ sint[SintRow(s, q)].decision = "LIKE"
        /\ AppOf(q, s) # 0
        /\ q \notin student_feed(s)

(***************************************************************************)
(* C16 (feed re-surfacing): if company c's decision on student s's card is *)
(* a PASS decided at T1 and s updates their profile, regenerating the      *)
(* card, at T2 > T1, then the card is in c's feed again.                   *)
(***************************************************************************)
C16_Resurfacing ==
    [][\A s \in Students, c \in Companies :
          (/\ Handles("update_me", s, CardOf(s))
           /\ sposts'[CardOf(s)].description # sposts[CardOf(s)].description
           /\ CintRow(c, CardOf(s)) # 0
           /\ cint[CintRow(c, CardOf(s))].decision = "PASS"
           /\ cint[CintRow(c, CardOf(s))].decided_at < now)
          => CardOf(s) \in company_feed(c)']_vars

(***************************************************************************)
(* C17: a card that company c has PASSed is out of c's feed exactly while  *)
(* the card's updatedAt (createdAt if never updated) is not after the      *)
(* PASS's decidedAt; while the card is not updated and c's decision stays  *)
(* PASS, the card stays out of c's feed.                                   *)
(***************************************************************************)
Passed(c, card) ==
    /\ CintRow(c, card) # 0
    /\ cint[CintRow(c, card)].decision = "PASS"

C17_Hidden ==
    \A c \in Companies : \A card \in DOMAIN sposts :
        (Passed(c, card) /\ sposts[card].is_active) =>
           LET fresh == IF sposts[card].updated_at # NULL
                        THEN sposts[card].updated_at
                        ELSE sposts[card].created_at
           IN card \notin company_feed(c)
                 <=> ~(fresh > cint[CintRow(c, card)].decided_at)

C17_StaysHidden ==
    \A c \in Companies : \A card \in DOMAIN sposts :
        (/\ Passed(c, card)
         /\ Passed(c, card)'
         /\ card \notin company_feed(c)
         /\ sposts'[card].updated_at = sposts[card].updated_at)
        => card \notin company_feed(c)'

Liked(c, card) ==
    /\ CintRow(c, card) # 0
    /\ cint[CintRow(c, card)].decision = "LIKE"

C19_Unique ==
    /\ \A i, j \in DOMAIN sint :
          (sint[i].student_user_id = sint[j].student_user_id
             /\ sint[i].post_id = sint[j].post_id) => i = j
    /\ \A i, j \in DOMAIN cint :
          (cint[i].company_user_id = cint[j].company_user_id
             /\ cint[i].student_post_id = cint[j].student_post_id) => i = j

\* the row is new, or it is the old row of the same pair
LazyRow(old, new, i, actor, target) ==
    IF i \in DOMAIN old
    THEN new[i][actor] = old[i][actor] /\ new[i][target] = old[i][target]
    ELSE \/ new[i].decision = "NONE" /\ new[i].decided_at = NULL
         \/ new[i].saved = FALSE /\ new[i].saved_at = NULL

C19_Step ==
    /\ Len(sint) <= Len(sint') /\ Len(sint') <= Len(sint) + 1
    /\ Len(cint) <= Len(cint') /\ Len(cint') <= Len(cint) + 1
    /\ \A i \in DOMAIN sint' :
          LazyRow(sint, sint', i, "student_user_id", "post_id")
    /\ \A i \in DOMAIN cint' :
          LazyRow(cint, cint', i, "company_user_id", "student_post_id")

C19_OneRowPerPair == [](C19_Unique) /\ [][C19_Step]_vars

\* a request that found no row is still before its flush while another
\* request has inserted the row for the same pair, and has updated it since
C19_Witness ==
    \E r \in inflight :
        /\ r.op = "first_set_saved_post"
        /\ SintRow(r.user, r.target) # 0
        /\ sint[SintRow(r.user, r.target)].decision # "NONE"
        /\ sint[SintRow(r.user, r.target)].decided_at > 1

(***************************************************************************)
(* C20: save and decision are independent on a ledger row: a setSaved      *)
(* request changes only saved / savedAt and leaves every decision,         *)
(* decidedAt and all Applications, Conversations and Messages as they      *)
(* were; a decision request leaves every saved / savedAt as it was.        *)
(***************************************************************************)
\* old rows keep the given columns, a new row has them at NONE / NULL or
\* FALSE / NULL
KeepsDecision(old, new) ==
    \A i \in DOMAIN new :
        IF i \in DOMAIN old
        THEN /\ new[i].decision = old[i].decision
             /\ new[i].decided_at = old[i].decided_at
        ELSE new[i].decision = "NONE" /\ new[i].decided_at = NULL

KeepsSaved(old, new) ==
    \A i \in DOMAIN new :
        IF i \in DOMAIN old
        THEN new[i].saved = old[i].saved /\ new[i].saved_at = old[i].saved_at
        ELSE new[i].saved = FALSE /\ new[i].saved_at = NULL

C20_SaveAndDecisionIndependent ==
    [][/\ (now' = now + 1 /\ last'.op \in {"set_saved_post", "set_saved_student"})
          => /\ KeepsDecision(sint, sint') /\ KeepsDecision(cint, cint')
             /\ sint' # sint \/ cint' # cint
             /\ UNCHANGED <<posts, sposts, apps, convs, msgs, parts>>
       /\ (now' = now + 1 /\ last'.op \in {"student_decision", "company_decision"})
          => KeepsSaved(sint, sint') /\ KeepsSaved(cint, cint')]_vars

\* a row that was saved and then decided on keeps its save, and the
\* company has saved a card after that
C20_Witness ==
    /\ last.op = "set_saved_student"
    /\ \E j \in DOMAIN cint : cint[j].saved
    /\ \E i \in DOMAIN sint :
          /\ sint[i].saved
          /\ sint[i].decision # "NONE"
          /\ sint[i].saved_at < sint[i].decided_at

(***************************************************************************)
(* C21: a ledger request (student decision, company decision, setSaved)    *)
(* that names a missing or inactive target fails with 404, and a decision  *)
(* by an actor of the wrong role fails with 403; such a request writes     *)
(* nothing: every ledger request that writes is by an actor of the right   *)
(* role on an existing, active target.                                     *)
(***************************************************************************)
GonePost(p) == p \notin DOMAIN posts \/ ~posts[p].is_active

GoneCard(card) == card \notin DOMAIN sposts \/ ~sposts[card].is_active

C21_Status ==
    /\ \A u \in Users : \A p \in ReqPostIds :
          /\ UserRole(u) # "STUDENT" => student_decision_status(u, p) = 403
          /\ (UserRole(u) = "STUDENT" /\ GonePost(p)) =>
                /\ student_decision_status(u, p) = 404
                /\ set_saved_post_status(u, p) = 404
    /\ \A u \in Users : \A card \in ReqCardIds :
          /\ UserRole(u) # "COMPANY" => company_decision_status(u, card) = 403
          /\ (UserRole(u) = "COMPANY" /\ GoneCard(card)) =>
                /\ company_decision_status(u, card) = 404
                /\ set_saved_student_status(u, card, NULL) = 404

C21_NoWrite ==
    /\ \A u \in Users : \A p \in ReqPostIds :
          (Handles("student_decision", u, p) \/ Handles("set_saved_post", u, p))
             => UserRole(u) = "STUDENT" /\ ~GonePost(p)
    /\ \A u \in Users : \A card \in ReqCardIds :
          (Handles("company_decision", u, card)
             \/ Handles("set_saved_student", u, card))
             => UserRole(u) = "COMPANY" /\ ~GoneCard(card)

C21_InvalidTargetRejected == [](C21_Status) /\ [][C21_NoWrite]_vars

(***************************************************************************)
(* C22: a decision or a send is applied atomically: in no state that a     *)
(* concurrent request can read is there an Application without its         *)
(* Conversation, a Conversation without its seed SYSTEM message, or a      *)
(* changed status without a SYSTEM message for the change.                 *)
(***************************************************************************)
C22_NeverHalfApplied ==
    \A a \in DOMAIN apps :
        /\ Cardinality(ConvsOf(a)) = 1
        /\ \A k \in ConvsOf(a) :
              /\ MsgIds(k) # {}
              /\ msgs[Min(MsgIds(k))].type = "SYSTEM"
              /\ Cardinality(SystemMsgIds(k)) >= 1 + changes[a]

\* while a request is between its reads and its commit, the database holds
\* an application created by a request and one whose status was changed
C22_Witness ==
    /\ inflight # {}
    /\ \E a \in DOMAIN apps : changes[a] >= 1
    /\ \E b \in DOMAIN apps : apps[b].created_at > 0

(***************************************************************************)
(* C23: when company c decides on student s's card while no Application    *)
(* exists between c and s and s has no PASS on any post of c, the decision *)
(* is recorded in the ledger and no Application, Conversation or Message   *)
(* is created; a recorded PASS takes effect when s later decides on a post *)
(* of c: that request creates the Application, DECLINED.                   *)
(***************************************************************************)
Between(c, s) ==
    {a \in DOMAIN apps :
        apps[a].company_user_id = c /\ apps[a].student_user_id = s}

PassedPosts(c, s) ==
    {sint[i].post_id : i \in {j \in DOMAIN sint :
         /\ sint[j].student_user_id = s
         /\ sint[j].decision = "PASS"
         /\ sint[j].post_id \in DOMAIN posts
         /\ posts[sint[j].post_id].company_user_id = c}}

C23_CompanyFirstDormant ==
    [][/\ \A c \in Companies : \A card \in DOMAIN sposts :
             (/\ Handles("company_decision", c, card)
              /\ Between(c, sposts[card].student_user_id) = {}
              /\ PassedPosts(c, sposts[card].student_user_id) = {})
             => /\ UNCHANGED <<apps, convs, msgs, parts>>
                /\ \E i \in DOMAIN cint' :
                      /\ cint'[i].company_user_id = c
                      /\ cint'[i].student_post_id = card
                      /\ cint'[i].decision = last'.arg
                      /\ cint'[i].decided_at = now
       /\ \A s \in Students : \A p \in DOMAIN posts :
             (/\ Handles("student_decision", s, p)
              /\ Between(posts[p].company_user_id, s) = {}
              /\ Passed(posts[p].company_user_id, CardOf(s)))
             => /\ Cardinality(AppsIn(apps', p, s)) = 1
                /\ apps'[AppIn(apps', p, s)].status = "DECLINED"]_vars

\* the company has decided on the card of a student who has a ledger row
\* but no PASS, and there is still no application between them
C23_Witness ==
    \E c \in Companies : \E card \in DOMAIN sposts :
        /\ last.op = "company_decision"
        /\ last.user = c
        /\ last.target = card
        /\ Between(c, sposts[card].student_user_id) = {}
        /\ \E i \in DOMAIN sint :
              sint[i].student_user_id = sposts[card].student_user_id

(***************************************************************************)
(* C24: when the owning company has not PASSed the student's card, a       *)
(* student PASS on a post creates no Application, Conversation or Message; *)
(* only the student's ledger row for the post changes.                     *)
(***************************************************************************)
C24_StudentPassCreatesNothing ==
    [][\A s \in Students : \A p \in DOMAIN posts :
          (/\ Handles("student_decision", s, p)
           /\ last'.arg = "PASS"
           /\ ~Passed(posts[p].company_user_id, CardOf(s)))
          => /\ UNCHANGED <<apps, convs, msgs, parts, cint, posts, sposts>>
             /\ \A i \in DOMAIN sint :
                   (sint[i].student_user_id # s \/ sint[i].post_id # p)
                      => sint'[i] = sint[i]
             /\ \E i \in DOMAIN sint' :
                   /\ sint'[i].student_user_id = s
                   /\ sint'[i].post_id = p
                   /\ sint'[i].decision = "PASS"
                   /\ i > Len(sint) => Len(sint') = Len(sint) + 1]_vars

\* a student has just PASSed a post with no application, the company
\* having decided on the card but not PASSed it
C24_Witness ==
    \E s \in Students : \E p \in DOMAIN posts :
        /\ last = Request("student_decision", s, p, "PASS")
        /\ Liked(posts[p].company_user_id, CardOf(s))
        /\ AppOf(p, s) = 0
        /\ sint[SintRow(s, p)].decision = "PASS"

(***************************************************************************)
(* C25: when company c decides (LIKE or PASS) on the card of student s,    *)
(* no Application exists between c and s, and s has PASSed at least one    *)
(* post of c, exactly one Application is created: for the post of c that   *)
(* s PASSed most recently (latest decided_at, ties broken by the highest   *)
(* decision-row id), DECLINED, with the decline SYSTEM message as the only *)
(* message of its conversation.                                            *)
(***************************************************************************)
PassRows(c, s) ==
    {i \in DOMAIN sint :
        /\ sint[i].student_user_id = s
        /\ sint[i].decision = "PASS"
        /\ sint[i].post_id \in DOMAIN posts
        /\ posts[sint[i].post_id].company_user_id = c}

MostRecentPass(c, s) ==
    CHOOSE r \in PassRows(c, s) :
        \A q \in PassRows(c, s) \ {r} :
            \/ sint[r].decided_at > sint[q].decided_at
            \/ sint[r].decided_at = sint[q].decided_at /\ r > q

C25_CompanyAfterStudentPass ==
    [][\A c \in Companies : \A card \in DOMAIN sposts :
          LET s == sposts[card].student_user_id
          IN (/\ Handles("company_decision", c, card)
              /\ Between(c, s) = {}
              /\ PassRows(c, s) # {})
             => /\ Len(apps') = Len(apps) + 1
                /\ \A a \in DOMAIN apps : apps'[a] = apps[a]
                /\ LET a == Len(apps')
                   IN /\ apps'[a].post_id = sint[MostRecentPass(c, s)].post_id
                      /\ apps'[a].student_user_id = s
                      /\ apps'[a].company_user_id = c
                      /\ apps'[a].status = "DECLINED"
                      /\ Cardinality(ConvsIn(convs', a)) = 1
                      /\ LET k == ConvIn(convs', a)
                         IN /\ Cardinality(MsgIdsIn(msgs', k)) = 1
                            /\ \A i \in MsgIdsIn(msgs', k) :
                                  /\ msgs'[i].type = "SYSTEM"
                                  /\ msgs'[i].sender_user_id = NULL
                                  /\ msgs'[i].text = DECLINED_TEXT]_vars

\* the student PASSed both posts of the company, the company then decided
\* on the card, and the application made is for the post PASSed last
C25_Witness ==
    \E c \in Companies : \E card \in DOMAIN sposts :
        LET s == sposts[card].student_user_id
        IN /\ last.op = "company_decision"
           /\ last.user = c
           /\ last.target = card
           /\ Cardinality(PassRows(c, s)) = 2
           /\ Cardinality(Between(c, s)) = 1
           /\ \A a \in Between(c, s) :
                 /\ apps[a].created_at = now - 1
                 /\ apps[a].status = "DECLINED"
                 /\ apps[a].post_id = sint[MostRecentPass(c, s)].post_id

(***************************************************************************)
(* C26: a company decision creates a new Application only if no            *)
(* Application of any status exists between that company and that student  *)
(* beforehand; when an ACCEPTED or DECLINED Application already exists     *)
(* between them, a company decision creates nothing.                       *)
(***************************************************************************)
C26_CreatesOnlyWithoutApplication ==
    [][\A c \in Companies : \A card \in DOMAIN sposts :
          (/\ Handles("company_decision", c, card)
           /\ \E a \in Between(c, sposts[card].student_user_id) :
                 apps[a].status \in {"ACCEPTED", "DECLINED"})
          => /\ Len(apps') = Len(apps)
             /\ Len(convs') = Len(convs)]_vars

CursorsIn(pt, k, u) ==
    {i \in DOMAIN pt : pt[i].conversation_id = k /\ pt[i].user_id = u}

C28_CreationIsComplete ==
    [][\A a \in DOMAIN apps' \ DOMAIN apps :
          /\ Cardinality(ConvsIn(convs', a)) = 1
          /\ \A k \in ConvsIn(convs', a) :
                /\ k \notin DOMAIN convs
                /\ Cardinality(MsgIdsIn(msgs', k)) = 1
                /\ \A i \in MsgIdsIn(msgs', k) :
                      /\ i \notin DOMAIN msgs
                      /\ msgs'[i].type = "SYSTEM"
                      /\ msgs'[i].sender_user_id = NULL
                      /\ msgs'[i].text =
                            status_to_system_text(apps'[a].status)
                      /\ \A u \in Users :
                            u \in {apps'[a].student_user_id,
                                   apps'[a].company_user_id}
                            => /\ Cardinality(CursorsIn(parts', k, u)) = 1
                               /\ \A r \in CursorsIn(parts', k, u) :
                                     parts'[r].last_read_message_id = i
                               /\ ListedUnread(k, u)' = 0]_vars

\* a request of the run has created an Application, once by a student
\* decision and once by a company decision
C28_Witness ==
    /\ last.op = "company_decision"
    /\ \E a \in DOMAIN apps : apps[a].created_at = now - 1
    /\ \E a \in DOMAIN apps :
          apps[a].created_at > 0 /\ apps[a].created_at < now - 1

(***************************************************************************)
(* C29: a successful send by party u into a non-DECLINED conversation      *)
(* appends exactly one USER message with sender u and sets u's read cursor *)
(* to the id of the new message, so u's own unread count is 0 right after  *)
(* sending; the other party's cursor is not advanced.                      *)
(***************************************************************************)
C29_Appended(u, k) ==
    /\ ~Declined(k)
    /\ Len(msgs') = Len(msgs) + 1
    /\ \A i \in DOMAIN msgs : msgs'[i] = msgs[i]
    /\ msgs'[Len(msgs')].conversation_id = k
    /\ msgs'[Len(msgs')].type = "USER"
    /\ msgs'[Len(msgs')].sender_user_id = u

C29_SenderCursor(u, k) ==
    /\ Cardinality(CursorsIn(parts', k, u)) = 1
    /\ \A r \in CursorsIn(parts', k, u) :
          parts'[r].last_read_message_id = Len(msgs')
    /\ ListedUnread(k, u)' = 0

\* the cursor of the other party o stays where it was, and where it is
\* first written by the send it does not cover the new message
C29_OtherCursor(o, k) ==
    /\ \A r \in CursorsIn(parts, k, o) : parts'[r] = parts[r]
    /\ \A r \in CursorsIn(parts', k, o) :
          parts'[r].last_read_message_id < Len(msgs')

C29_SendAdvancesOnlySender ==
    [][\A u \in Users : \A k \in DOMAIN convs :
          Handles("send_message", u, k)
          => /\ C29_Appended(u, k)
             /\ C29_SenderCursor(u, k)
             /\ \A o \in Users \ {u} :
                   Party(k, o) => C29_OtherCursor(o, k)]_vars

(***************************************************************************)
(* C30: after a successful send by user u into conversation k, the unread  *)
(* count of the other party for k is exactly one higher than before the    *)
(* send, also when one or both ConversationParticipant rows were missing   *)
(* and are backfilled during the send.                                     *)
(***************************************************************************)
C30_RecipientUnreadPlusOne ==
    [][\A u \in Users : \A k \in DOMAIN convs :
          Handles("send_message", u, k)
          => \A o \in Users \ {u} :
                Party(k, o) =>
                   ListedUnread(k, o)' = ListedUnread(k, o) + 1]_vars

(***************************************************************************)
(* C31: mark-read without a lastReadMessageId sets the caller's cursor to  *)
(* the highest message id currently in the conversation and returns it     *)
(* (with 3 unread messages the cursor becomes the latest id and the next   *)
(* unread query returns 0); when the conversation has no messages the      *)
(* cursor is left as it was.  Stated for the requests that succeed and     *)
(* whose lookups are not outdated by a write committed since; the          *)
(* outdated ones are the subject of C32.                                   *)
(***************************************************************************)
\* request r writes in this step and does not fail on the constraint
Succeeds(r) ==
    /\ r \in inflight
    /\ inflight' = inflight \ {r}
    /\ r.row \/ PartRow(r.target, r.user) = 0

\* since r began, no message has been committed to the conversation and
\* the caller's row has not been written
UpToDate(r) ==
    /\ \A i \in MsgIds(r.target) : msgs[i].created_at <= r.at
    /\ \A i \in CursorsIn(parts, r.target, r.user) :
          parts[i].updated_at <= r.at

C31_MarkReadToLatest ==
    [][\A r \in inflight :
          (/\ Succeeds(r)
           /\ r.op = "mark_conversation_read"
           /\ r.arg = NULL
           /\ UpToDate(r))
          => IF MaxMsgId(r.target) # NULL
             THEN /\ Cardinality(CursorsIn(parts', r.target, r.user)) = 1
                  /\ \A i \in CursorsIn(parts', r.target, r.user) :
                        parts'[i].last_read_message_id = MaxMsgId(r.target)
                  /\ ListedUnread(r.target, r.user)' = 0
             ELSE \A i \in CursorsIn(parts, r.target, r.user) :
                     parts'[i].last_read_message_id =
                        parts[i].last_read_message_id]_vars

\* Scenario D: the company's row was made before the student wrote (it
\* precedes the student's row, with its cursor on message 1), the student
\* has sent
\* messages 2, 3 and 4, and the company's mark-read without an id, the
\* fifth request, has put the company's cursor on message 4
C31_Witness ==
    \E k \in DOMAIN convs :
        LET c == apps[convs[k].application_id].company_user_id
            s == apps[convs[k].application_id].student_user_id
        IN /\ last = Request("commit_mark_conversation_read", c, k, NULL)
           /\ MsgIds(k) = {1, 2, 3, 4}
           /\ \A i \in {2, 3, 4} :
                 msgs[i].type = "USER" /\ msgs[i].sender_user_id = s
           /\ PartRow(k, c) # 0
           /\ PartRow(k, s) # 0
           /\ PartRow(k, c) < PartRow(k, s)
           /\ parts[PartRow(k, c)].last_read_message_id = 4
           /\ ListedUnread(k, c) = 0
           /\ inflight = {}
           /\ now = MaxChatClock

(***************************************************************************)
(* C32: a mark-read call without an explicit lastReadMessageId never       *)
(* lowers the caller's existing cursor, under every interleaving with      *)
(* concurrent send-message and mark-read requests on the same              *)
(* conversation.                                                           *)
(***************************************************************************)
C32_ImplicitMarkReadNeverLowers ==
    [][\A r \in inflight :
          (/\ Succeeds(r)
           /\ r.op = "mark_conversation_read"
           /\ r.arg = NULL)
          => \A i \in CursorsIn(parts, r.target, r.user) :
                parts[i].last_read_message_id # NULL
                => parts'[i].last_read_message_id >=
                      parts[i].last_read_message_id]_vars

(***************************************************************************)
(* C33: mark-read with a lastReadMessageId that does not exist or belongs  *)
(* to a different conversation fails with InvalidArgument (400) and leaves *)
(* the caller's cursor unchanged and creates no participant row.           *)
(***************************************************************************)
InvalidId(k, m) ==
    m # NULL /\ (m \notin DOMAIN msgs \/ msgs[m].conversation_id # k)

C33_Rejected ==
    \A k \in DOMAIN convs : \A u \in Users :
        Party(k, u) =>
           \A m \in 1..(Len(msgs) + 1) :
              InvalidId(k, m) =>
                 mark_conversation_read_status(u, k, m) = 400

\* no step is a mark-read with such an id, and every cursor a step writes
\* is the id of a message of the row's conversation
C33_NoEffect ==
    /\ \A k \in DOMAIN convs : \A u \in Users :
          Handles("mark_conversation_read", u, k) => ~InvalidId(k, last'.arg)
    /\ \A i \in DOMAIN parts' :
          (i \notin DOMAIN parts \/ parts'[i] # parts[i])
          => \/ parts'[i].last_read_message_id = NULL
             \/ parts'[i].last_read_message_id \in
                   MsgIdsIn(msgs', parts'[i].conversation_id)

C33_InvalidIdRejected == [](C33_Rejected) /\ [][C33_NoEffect]_vars

\* a party of two conversations has no participant row in one of them (the
\* request would have to insert it) and the other holds a message: that
\* message's id, like an id beyond the last message, is invalid for the
\* first conversation
C33_Witness ==
    \E k1, k2 \in DOMAIN convs : \E u \in Users : \E m \in DOMAIN msgs :
        /\ k1 # k2
        /\ Party(k1, u) /\ Party(k2, u)
        /\ PartRow(k1, u) = 0
        /\ msgs[m].conversation_id = k2
        /\ mark_conversation_read_status(u, k1, m) = 400
        /\ mark_conversation_read_status(u, k1, Len(msgs) + 1) = 400

(***************************************************************************)
(* C34: every conversation operation (read messages, send message, mark    *)
(* read) on a conversation id that does not exist, and the status          *)
(* operation on an application id that does not exist, fails with NotFound *)
(* (404) rather than with Forbidden or another outcome.                    *)
(***************************************************************************)
C34_MissingIsNotFound ==
    \A u \in Users :
        /\ \A k \in 1..(Len(convs) + 1) :
              k \notin DOMAIN convs =>
                 /\ get_messages_status(u, k) = 404
                 /\ send_message_status(u, k) = 404
                 /\ \A m \in {NULL} \cup DOMAIN msgs :
                       mark_conversation_read_status(u, k, m) = 404
        /\ \A a \in 1..(Len(apps) + 1) :
              a \notin DOMAIN apps =>
                 \A st \in ReqStatus :
                    set_application_status_status(u, a, st) = 404

(***************************************************************************)
(* C35: setting an Application's status to the status it already has       *)
(* (directly or through the LIKE/PASS shorthand, LIKE meaning ACCEPTED and *)
(* PASS meaning DECLINED) is a no-op: status, updated_at and the           *)
(* conversation's messages are unchanged and the call still succeeds.      *)
(* The request writes nothing: no step is such a request, and every step   *)
(* of the status endpoint moves the status to a different one.             *)
(***************************************************************************)
Shorthand(st) ==
    CASE st = "LIKE" -> "ACCEPTED"
      [] st = "PASS" -> "DECLINED"
      [] OTHER -> st

C35_Succeeds ==
    \A a \in DOMAIN apps : \A st \in ReqStatus :
        Shorthand(st) = apps[a].status =>
           set_application_status_status(apps[a].company_user_id, a, st)
              = 200

C35_NoWrite ==
    \A a \in DOMAIN apps : \A u \in Users :
        Handles("set_application_status", u, a) =>
           /\ apps[a].status # Shorthand(last'.arg)
           /\ apps'[a].status = Shorthand(last'.arg)
           /\ apps'[a].status # apps[a].status

C35_SameStatusIsNoOp == [](C35_Succeeds) /\ [][C35_NoWrite]_vars

\* the status endpoint has just moved an Application through the
\* shorthand: repeating the request, or sending the status by its name, is
\* now a request for the status the Application has
C35_Witness ==
    \E a \in DOMAIN apps :
        /\ last.op = "set_application_status"
        /\ last.target = a
        /\ last.arg \in {"LIKE", "PASS"}
        /\ apps[a].status = Shorthand(last.arg)
        /\ apps[a].updated_at = now - 1
        /\ changes[a] >= 1

(***************************************************************************)
(* C36: only the company that owns an Application can change its status:   *)
(* a status request from a student or from a different company fails with  *)
(* Forbidden (403) and leaves the Application's status, updated_at and     *)
(* messages unchanged.                                                     *)
(***************************************************************************)
C36_Forbidden ==
    \A a \in DOMAIN apps : \A u \in StatusCallers : \A st \in ReqStatus :
        u # apps[a].company_user_id =>
           set_application_status_status(u, a, st) = 403

C36_NoEffect ==
    \A a \in DOMAIN apps : \A u \in StatusCallers :
        Handles("set_application_status", u, a) =>
           u = apps[a].company_user_id

C36_OnlyOwnerSetsStatus == [](C36_Forbidden) /\ [][C36_NoEffect]_vars

\* the owner has just declined an Application through the status endpoint;
\* its student and the other company are refused the request that would
\* accept it again, which the owner is allowed
C36_Witness ==
    \E a \in DOMAIN apps : \E c \in OtherCompanies :
        /\ last = Request("set_application_status",
                          apps[a].company_user_id, a, "DECLINED")
        /\ apps[a].status = "DECLINED"
        /\ set_application_status_status(apps[a].student_user_id, a,
                                         "ACCEPTED") = 403
        /\ set_application_status_status(c, a, "ACCEPTED") = 403
        /\ set_application_status_status(apps[a].company_user_id, a,
                                         "ACCEPTED") = 200

(***************************************************************************)
(* C37: if an Application exists whose Conversation is missing, every      *)
(* operation that would change that Application's status (company decision *)
(* or status endpoint) reports an internal error and leaves the status     *)
(* unchanged; none silently changes the status without appending a SYSTEM  *)
(* message.                                                                *)
(***************************************************************************)
C37_StatusEndpointFails ==
    \A a \in DOMAIN apps : \A st \in ReqStatus :
        (ConvOf(a) = 0 /\ Shorthand(st) # apps[a].status) =>
           set_application_status_status(apps[a].company_user_id, a, st)
              = 500

C37_StatusKept ==
    \A a \in DOMAIN apps :
        ConvOf(a) = 0 =>
           /\ apps'[a].status = apps[a].status
           /\ apps'[a].updated_at = apps[a].updated_at

C37_MissingConversationIsFatal ==
    [](C37_StatusEndpointFails) /\ [][C37_StatusKept]_vars

(***************************************************************************)
(* C38: in every reachable state, each ConversationParticipant's           *)
(* last_read_message_id is either null or the id of a message of that same *)
(* conversation, and there is at most one participant row per              *)
(* (conversation, user), also when backfills by listing, send and          *)
(* mark-read race.                                                         *)
(***************************************************************************)
C38_CursorsWellFormed ==
    /\ \A i \in DOMAIN parts :
          \/ parts[i].last_read_message_id = NULL
          \/ /\ parts[i].last_read_message_id \in DOMAIN msgs
             /\ msgs[parts[i].last_read_message_id].conversation_id =
                   parts[i].conversation_id
    /\ \A i, j \in DOMAIN parts :
          (/\ parts[i].conversation_id = parts[j].conversation_id
           /\ parts[i].user_id = parts[j].user_id) => i = j

\* two requests of different kinds found no row for the same user and
\* conversation; one has inserted it since, the other is about to flush
C38_Witness ==
    \E r \in inflight :
        /\ ~r.row
        /\ PartRow(r.target, r.user) # 0
        /\ last.user = r.user
        /\ last.target = r.target
        /\ last.op # "none"
        /\ \E op \in {"send_message", "mark_conversation_read",
                      "list_applications"} :
              r.op = op /\ last.op # "commit_" \o op

(***************************************************************************)
(* C39: in every reachable state, the most recent SYSTEM message (highest  *)
(* id) of each conversation carries the fixed text of its Application's    *)
(* current status, so the chat permission (send rejected iff DECLINED)     *)
(* always agrees with the last system message shown.                       *)
(***************************************************************************)
StatusText(st) ==
    CASE st = "PENDING" -> "Message still pending"
      [] st = "ACCEPTED" -> "Ready to connect?"
      [] st = "DECLINED" ->
            "Unfortunately this was not a match, keep searching!"

C39_LastSystemMessageIsStatus ==
    \A k \in DOMAIN convs :
        /\ SystemMsgIds(k) # {}
        /\ LatestSystemText(k) =
              StatusText(apps[convs[k].application_id].status)
        /\ \A u \in Users :
              Party(k, u) =>
                 (send_message_status(u, k) = 400
                    <=> LatestSystemText(k) = StatusText("DECLINED"))

\* an Application whose status has changed twice, back to one it had
\* before: its conversation holds two SYSTEM messages with the same text
C39_Witness ==
    \E k \in DOMAIN convs :
        /\ changes[convs[k].application_id] >= 2
        /\ \E i, j \in SystemMsgIds(k) :
              i < j /\ msgs[i].text = msgs[j].text
        /\ \E i \in SystemMsgIds(k) : msgs[i].text # LatestSystemText(k)

(***************************************************************************)
(* C40: an Application is only ever created for a post that is active at   *)
(* the moment of creation: after a company soft-deletes a post, no         *)
(* sequence of student or company decisions creates an Application for     *)
(* that post, while Applications, Conversations and decision rows that     *)
(* already reference it remain intact.                                     *)
(***************************************************************************)
C40_CreatedForActivePost ==
    \A a \in DOMAIN apps' \ DOMAIN apps :
        /\ apps'[a].post_id \in DOMAIN posts
        /\ posts[apps'[a].post_id].is_active

C40_DeleteKeepsRows ==
    \A c \in Companies : \A p \in DOMAIN posts :
        Handles("delete_post", c, p) =>
           /\ ~posts'[p].is_active
           /\ DOMAIN posts' = DOMAIN posts
           /\ UNCHANGED <<sint, cint, apps, convs, msgs, parts>>

C40_NoApplicationForDeletedPost ==
    [][C40_CreatedForActivePost /\ C40_DeleteKeepsRows]_vars

====
